---- MODULE Spec2Model ----
(***************************************************************************)
(* Verification model of the reference-coverage engine of bgc-quast        *)
(* (src/src/compare_to_ref_analyzer.py): the status classifier             *)
(* determine_ref_bgc_status, the coordinate mapper                         *)
(* get_asm_bgc_coords_on_ref and the intersection collector                *)
(* get_intersecting_bgcs_from_alignment / compute_reference_coverage.      *)
(*                                                                         *)
(* Status names are the ones the analyzer returns.  They correspond to     *)
(* the names of the specification as follows:                              *)
(*   MISSED = Missed, COVERED = FullyRecovered,                            *)
(*   COVERED_BY_FRAGMENTS = FragmentedRecovery,                            *)
(*   PARTIALLY_COVERED = PartiallyRecovered.                               *)
(***************************************************************************)
EXTENDS Integers, Sequences, FiniteSets, TLC

VARIABLES
    pc,             \* "start" before the operation of the specification ran, "done" after
    allowed_gap,    \* Config.allowed_gap_for_fragmented_recovery
    ref_bgc,        \* classifier: the ReferenceBgc handed to determine_ref_bgc_status
    status,         \* classifier: the Status it returned
    alignment,      \* mapper: the AlignmentInfo
    query,          \* mapper: <<assembly_bgc_start, assembly_bgc_end>>
    mapped,         \* mapper: the returned (start, end, reversed)
    genome_mining_result,            \* engine: the assembly GenomeMiningResult (its bgcs)
    reference_genome_mining_result,  \* engine: the reference GenomeMiningResult (its bgcs)
    quast_result,                    \* engine: QuastResult.reference_sequences
    ref_bgcs,                        \* engine: the list compute_reference_coverage returned
    results,            \* the list of GenomeMiningResult of compute_coverage / compute_uniqueness
    quast_results,      \* compute_coverage: the list of QuastResult
    ref_bgc_coverage,   \* compute_coverage: what it returned or raised
    overlap_threshold,  \* compute_uniqueness: the threshold, a fraction <<numerator, denominator>>
    uniqueness,         \* compute_uniqueness: what it returned or raised
    intervals,          \* overlap_len: <<a_start, a_end, b_start, b_end>>
    overlap,            \* overlap_len: the returned length
    coverage,           \* coverage_of_a_by_b: the returned fraction <<ov, a_len>>
    requested_mode,     \* determine_running_mode: the requested mode
    running_mode,       \* determine_running_mode: what it returned or raised
    reference_run,      \* the zero or one reference GenomeMiningResult
    names_arg,            \* the zero or one parsed lists of --names
    label_renaming_log  \* assign_and_deduplicate_display_labels: what it returned or raised

vars == <<pc, allowed_gap, ref_bgc, status, alignment, query, mapped,
          genome_mining_result, reference_genome_mining_result, quast_result, ref_bgcs,
          results, quast_results, ref_bgc_coverage, overlap_threshold, uniqueness,
          intervals, overlap,
          coverage, requested_mode, running_mode, reference_run, names_arg,
          label_renaming_log>>

inputVars == <<coverage, requested_mode, running_mode, reference_run, names_arg,
          label_renaming_log>>

\* the variables of compute_coverage, compute_uniqueness and overlap_len
runVars == <<results, quast_results, ref_bgc_coverage, overlap_threshold, uniqueness,
             intervals, overlap>>

----------------------------------------------------------------------------
(* Bounds *)

\* coordinates of the enumerated classifier inputs are 0..MaxCoord
MaxCoord == 4
\* longest enumerated intersection list
MaxInts == 3
\* largest enumerated allowed gap (besides the ones of the test scenarios)
MaxGap == 2

----------------------------------------------------------------------------
(* Helpers *)

Max(a, b) == IF a >= b THEN a ELSE b
Min(a, b) == IF a <= b THEN a ELSE b
Abs(a) == IF a >= 0 THEN a ELSE -a

None == "None"

\* Status values returned by determine_ref_bgc_status
MISSED == "MISSED"
COVERED == "COVERED"
COVERED_BY_FRAGMENTS == "COVERED_BY_FRAGMENTS"
PARTIALLY_COVERED == "PARTIALLY_COVERED"

\* Bgc: the fields the engine reads
Bgc(bgc_id, sequence_id, start, end) ==
    [bgc_id |-> bgc_id, sequence_id |-> sequence_id, start |-> start, end |-> end]

\* Intersection dataclass
Intersection(assembly_bgc, start_in_ref, end_in_ref, reversed) ==
    [assembly_bgc |-> assembly_bgc, start_in_ref |-> start_in_ref,
     end_in_ref |-> end_in_ref, reversed |-> reversed]

\* ReferenceBgc: a Bgc with status and intersecting_assembly_bgcs
ReferenceBgc(bgc_id, sequence_id, start, end, st, ints) ==
    [bgc_id |-> bgc_id, sequence_id |-> sequence_id, start |-> start, end |-> end,
     status |-> st, intersecting_assembly_bgcs |-> ints]

\* ReferenceBgc.from_bgc: copies the Bgc fields, status MISSED, no intersections
from_bgc(bgc) ==
    ReferenceBgc(bgc.bgc_id, bgc.sequence_id, bgc.start, bgc.end, MISSED, <<>>)

----------------------------------------------------------------------------
(* determine_ref_bgc_status *)

\* as ScanIntersections, but the running range is never restarted after a gap
RECURSIVE ScanIntersectionsNoReset(_, _, _, _, _)
ScanIntersectionsNoReset(rb, ints, i, min_start, max_end) ==
    IF i > Len(ints)
    THEN [covered |-> FALSE, min_start |-> min_start, max_end |-> max_end]
    ELSE IF ints[i].start_in_ref <= rb.start /\ ints[i].end_in_ref >= rb.end
    THEN [covered |-> TRUE, min_start |-> min_start, max_end |-> max_end]
    ELSE ScanIntersectionsNoReset(rb, ints, i + 1, min_start,
                                  Max(max_end, ints[i].end_in_ref))

\* as ScanIntersections, but an intersection with the exact bounds of the
\* reference region does not count as containing it
RECURSIVE ScanIntersectionsStrict(_, _, _, _, _)
ScanIntersectionsStrict(rb, ints, i, min_start, max_end) ==
    IF i > Len(ints)
    THEN [covered |-> FALSE, min_start |-> min_start, max_end |-> max_end]
    ELSE IF ints[i].start_in_ref < rb.start /\ ints[i].end_in_ref > rb.end
    THEN [covered |-> TRUE, min_start |-> min_start, max_end |-> max_end]
    ELSE IF ints[i].start_in_ref > max_end + 1
    THEN ScanIntersectionsStrict(rb, ints, i + 1, ints[i].start_in_ref,
                                 ints[i].end_in_ref)
    ELSE ScanIntersectionsStrict(rb, ints, i + 1, min_start,
                                 Max(max_end, ints[i].end_in_ref))

\* as ScanIntersections, but an intersection that only abuts the running
\* range (start_in_ref = max_end + 1) starts a new range
RECURSIVE ScanIntersections_NoAdjacent(_, _, _, _, _)
ScanIntersections_NoAdjacent(rb, ints, i, min_start, max_end) ==
    IF i > Len(ints)
    THEN [covered |-> FALSE, min_start |-> min_start, max_end |-> max_end]
    ELSE IF ints[i].start_in_ref <= rb.start /\ ints[i].end_in_ref >= rb.end
    THEN [covered |-> TRUE, min_start |-> min_start, max_end |-> max_end]
    ELSE IF ints[i].start_in_ref > max_end
    THEN ScanIntersections_NoAdjacent(rb, ints, i + 1, ints[i].start_in_ref,
                                      ints[i].end_in_ref)
    ELSE ScanIntersections_NoAdjacent(rb, ints, i + 1, min_start,
                                      Max(max_end, ints[i].end_in_ref))

\* The for loop of determine_ref_bgc_status from position i on, with the
\* running range [min_start, max_end]; covered is the early return COVERED.
RECURSIVE ScanIntersections(_, _, _, _, _)
ScanIntersections(rb, ints, i, min_start, max_end) ==
    IF i > Len(ints)
    THEN [covered |-> FALSE, min_start |-> min_start, max_end |-> max_end]
    ELSE IF ints[i].start_in_ref <= rb.start /\ ints[i].end_in_ref >= rb.end
    THEN [covered |-> TRUE, min_start |-> min_start, max_end |-> max_end]
    ELSE IF ints[i].start_in_ref > max_end + 1
    THEN ScanIntersections(rb, ints, i + 1, ints[i].start_in_ref, ints[i].end_in_ref)
    ELSE ScanIntersections(rb, ints, i + 1, min_start, Max(max_end, ints[i].end_in_ref))

\* as determine_ref_bgc_status, without the early return for an empty list
determine_ref_bgc_status_NoEmptyCheck(rb) ==
    LET ints == rb.intersecting_assembly_bgcs IN
    IF Len(ints) = 0 THEN PARTIALLY_COVERED
    ELSE LET r == ScanIntersections(rb, ints, 1, ints[1].start_in_ref, ints[1].end_in_ref)
         IN IF r.covered THEN COVERED
            ELSE IF r.min_start <= rb.start /\ r.max_end >= rb.end
            THEN COVERED_BY_FRAGMENTS
            ELSE PARTIALLY_COVERED

determine_ref_bgc_status(rb) ==
    LET ints == rb.intersecting_assembly_bgcs IN
    IF Len(ints) = 0 THEN MISSED
    ELSE LET r == ScanIntersections(rb, ints, 1, ints[1].start_in_ref, ints[1].end_in_ref)
         IN IF r.covered THEN COVERED
            ELSE IF r.min_start <= rb.start /\ r.max_end >= rb.end
            THEN COVERED_BY_FRAGMENTS
            ELSE PARTIALLY_COVERED

----------------------------------------------------------------------------
(* Classifier specification: inputs *)

\* create_bgc() of the tests: the assembly Bgc of a hand-made Intersection
DummyBgc == Bgc("", "chr1", 0, 100)

Intv(s, e) == Intersection(DummyBgc, s, e, FALSE)

\* footprints the mapper can produce: end_in_ref >= start_in_ref - 1
GridIntervals ==
    { Intv(p[1], p[2]) :
        p \in { q \in (0..MaxCoord) \X (0..MaxCoord) : q[2] >= q[1] - 1 } }

\* lists of at most n intersections sorted by start_in_ref, as
\* compute_reference_coverage attaches them
RECURSIVE SortedLists(_)
SortedLists(n) ==
    IF n = 0 THEN { <<>> }
    ELSE LET shorter == SortedLists(n - 1) IN
         shorter \cup
         { Append(p[1], p[2]) :
             p \in { q \in shorter \X GridIntervals :
                       /\ Len(q[1]) = n - 1
                       /\ (n > 1 => q[1][n - 1].start_in_ref <= q[2].start_in_ref) } }

GridRefBgcs ==
    { ReferenceBgc("", "chr1", p[1], p[2], MISSED, ints) :
        p \in { q \in (0..MaxCoord) \X (0..MaxCoord) : q[1] <= q[2] },
        ints \in SortedLists(MaxInts) }

\* the reference BGC [100, 200] of tests/test_compare_to_ref_analyzer.py
TestRefBgc(ints) == ReferenceBgc("", "chr1", 100, 200, MISSED, ints)

\* the intersection lists of the determine_status tests, each with its allowed_gap
ScenarioInputs ==
    { <<TestRefBgc(<<>>), 100>>,
      <<TestRefBgc(<<Intv(50, 250)>>), 100>>,
      <<TestRefBgc(<<Intv(100, 200)>>), 100>>,
      <<TestRefBgc(<<Intv(120, 180)>>), 100>>,
      <<TestRefBgc(<<Intv(50, 150), Intv(152, 250)>>), 1>>,
      <<TestRefBgc(<<Intv(50, 150), Intv(151, 252)>>), 100>>,
      <<TestRefBgc(<<Intv(50, 95), Intv(99, 150), Intv(130, 200)>>), 100>>,
      <<TestRefBgc(<<Intv(50, 120), Intv(125, 250)>>), 100>> }

\* values of the variables a specification does not use
NoAlignment == [assembly_seq_id |-> None, ref_seq_id |-> None, ref_start |-> 0,
                ref_end |-> 0, assembly_start |-> 0, assembly_end |-> 0, len_diff |-> 0]
NoRefBgc == ReferenceBgc("", None, 0, 0, MISSED, <<>>)

MapperIdle ==
    /\ alignment = NoAlignment
    /\ query = <<0, 0>>
    /\ mapped = None

EngineIdle ==
    /\ genome_mining_result = <<>>
    /\ reference_genome_mining_result = <<>>
    /\ quast_result = <<>>
    /\ ref_bgcs = <<>>

ClassifierIdle ==
    /\ ref_bgc = NoRefBgc
    /\ status = None

NoResult == [error |-> None, value |-> <<>>]

\* an Optional argument is the list of its zero or one values
NoValue == <<>>

InputIdle ==
    /\ coverage = <<0, 1>>
    /\ requested_mode = "auto"
    /\ running_mode = NoResult
    /\ reference_run = NoValue
    /\ names_arg = NoValue
    /\ label_renaming_log = NoResult

CoverageIdle ==
    /\ quast_results = <<>>
    /\ ref_bgc_coverage = NoResult

UniquenessIdle ==
    /\ overlap_threshold = <<0, 1>>
    /\ uniqueness = NoResult

GeometryIdle ==
    /\ intervals = <<0, 0, 0, 0>>
    /\ overlap = 0

RunsIdle ==
    /\ results = <<>>
    /\ CoverageIdle
    /\ UniquenessIdle
    /\ GeometryIdle

InitClassify ==
    /\ InputIdle
    /\ pc = "start"
    /\ status = None
    /\ \/ /\ ref_bgc \in GridRefBgcs
          /\ allowed_gap \in 0..MaxGap
       \/ \E sc \in ScenarioInputs :
            /\ ref_bgc = sc[1]
            /\ allowed_gap = sc[2]
    /\ MapperIdle
    /\ EngineIdle
    /\ RunsIdle

\* status = determine_ref_bgc_status(ref_bgc); the caller's allowed_gap has no
\* parameter to go to
DetermineStatus ==
    /\ pc = "start"
    /\ status' = determine_ref_bgc_status(ref_bgc)
    /\ pc' = "done"
    /\ UNCHANGED inputVars
    /\ UNCHANGED runVars
    /\ UNCHANGED <<allowed_gap, ref_bgc, alignment, query, mapped,
                   genome_mining_result, reference_genome_mining_result,
                   quast_result, ref_bgcs>>

NextClassify == DetermineStatus

SpecClassify == InitClassify /\ [][NextClassify]_vars

----------------------------------------------------------------------------
(* Classifier claims *)

Ints == ref_bgc.intersecting_assembly_bgcs

Contains(x, rb) == x.start_in_ref <= rb.start /\ x.end_in_ref >= rb.end

SomeContains == \E i \in 1..Len(Ints) : Contains(Ints[i], ref_bgc)

\* the classification the claim C1 describes, with the configured gap g
RECURSIVE ClaimedScan(_, _, _, _, _, _)
ClaimedScan(rb, ints, g, i, min_start, max_end) ==
    IF i > Len(ints)
    THEN IF min_start <= rb.start /\ max_end >= rb.end
         THEN COVERED_BY_FRAGMENTS ELSE PARTIALLY_COVERED
    ELSE IF ints[i].start_in_ref <= max_end + g
    THEN ClaimedScan(rb, ints, g, i + 1, min_start, Max(max_end, ints[i].end_in_ref))
    ELSE ClaimedScan(rb, ints, g, i + 1, ints[i].start_in_ref, ints[i].end_in_ref)

ClaimedStatus(rb, g) ==
    LET ints == rb.intersecting_assembly_bgcs IN
    IF Len(ints) = 0 THEN MISSED
    ELSE IF \E i \in 1..Len(ints) : Contains(ints[i], rb) THEN COVERED
    ELSE ClaimedScan(rb, ints, g, 2, ints[1].start_in_ref, ints[1].end_in_ref)

\* C1: a subsequent intersection is merged into the running range exactly
\* when start_in_ref <= maxEnd + allowedGap and otherwise starts a new range,
\* for every configured allowedGap >= 0: the returned status is the one this
\* scan with the configured allowed_gap produces.
C1_GapMergePolicy ==
    pc = "done" => status = ClaimedStatus(ref_bgc, allowed_gap)

\* the distance the scan of determine_ref_bgc_status bridges
MergeDistance == 1

\* largest end_in_ref among positions a..b
RECURSIVE MaxEndOf(_, _, _)
MaxEndOf(ints, a, b) ==
    IF a = b THEN ints[a].end_in_ref
    ELSE Max(ints[b].end_in_ref, MaxEndOf(ints, a, b - 1))

\* positions k..Len form one run: each next intersection starts within
\* MergeDistance of what the run covered before it
ConnectedFrom(ints, k) ==
    \A j \in (k + 1)..Len(ints) :
        ints[j].start_in_ref <= MaxEndOf(ints, k, j - 1) + MergeDistance

\* first position of the last running range
LastRunStart(ints) ==
    CHOOSE k \in 1..Len(ints) :
        /\ ConnectedFrom(ints, k)
        /\ \A m \in 1..(k - 1) : ~ConnectedFrom(ints, m)

LastRunCovers(rb) ==
    LET ints == rb.intersecting_assembly_bgcs
        k == LastRunStart(ints)
    IN /\ ints[k].start_in_ref <= rb.start
       /\ MaxEndOf(ints, k, Len(ints)) >= rb.end

\* C2: when no single intersection contains the reference region, the status
\* is COVERED_BY_FRAGMENTS exactly when the last running range covers the
\* reference region and PARTIALLY_COVERED otherwise; disjoint runs whose
\* union spans the region do not count.
C2_LastRunDecides ==
    (pc = "done" /\ Len(Ints) > 0 /\ ~SomeContains) =>
        /\ status \in {COVERED_BY_FRAGMENTS, PARTIALLY_COVERED}
        /\ status = COVERED_BY_FRAGMENTS <=> LastRunCovers(ref_bgc)

\* two disjoint runs that together span the reference region: partially covered
C2_Witness ==
    /\ pc = "done"
    /\ Len(Ints) >= 2
    /\ ~SomeContains
    /\ LastRunStart(Ints) > 1
    /\ Ints[1].start_in_ref <= ref_bgc.start
    /\ MaxEndOf(Ints, 1, Len(Ints)) >= ref_bgc.end
    /\ status = PARTIALLY_COVERED

\* C3: if any single intersection contains the reference region (equal
\* bounds included) the status is COVERED, whatever the other intersections
\* and whatever the allowed gap.
C3_SingleContainingIsCovered ==
    (pc = "done" /\ SomeContains) => status = COVERED

\* the containing intersection has exactly the bounds of the region and
\* comes after a non-containing one
C3_Witness ==
    /\ pc = "done"
    /\ status = COVERED
    /\ Len(Ints) >= 2
    /\ ~Contains(Ints[1], ref_bgc)
    /\ \E i \in 2..Len(Ints) :
          /\ Ints[i].start_in_ref = ref_bgc.start
          /\ Ints[i].end_in_ref = ref_bgc.end

\* C4: the status is MISSED when there are no intersections and is not
\* MISSED when there is at least one.
C4_MissedIffNoIntersections ==
    pc = "done" => (status = MISSED <=> Len(Ints) = 0)

C4_Witness ==
    /\ pc = "done"
    /\ Len(Ints) = 0
    /\ status = MISSED

\* every base of the reference region lies in some intersection
CoversEveryBase ==
    \A p \in ref_bgc.start..ref_bgc.end :
        \E i \in 1..Len(Ints) :
            Ints[i].start_in_ref <= p /\ p <= Ints[i].end_in_ref

\* the test get_intersecting_bgcs_from_alignment applies before it keeps an
\* intersection
OverlapsRegion(x, rb) == x.start_in_ref <= rb.end /\ x.end_in_ref >= rb.start

AllOverlapRegion == \A i \in 1..Len(Ints) : OverlapsRegion(Ints[i], ref_bgc)

----------------------------------------------------------------------------
(* get_asm_bgc_coords_on_ref *)

AlignmentInfo(assembly_seq_id, ref_seq_id, ref_start, ref_end, assembly_start, assembly_end) ==
    [assembly_seq_id |-> assembly_seq_id, ref_seq_id |-> ref_seq_id,
     ref_start |-> ref_start, ref_end |-> ref_end,
     assembly_start |-> assembly_start, assembly_end |-> assembly_end,
     len_diff |-> Abs((ref_end - ref_start) - Abs(assembly_end - assembly_start))]

\* as IntOf, but rounding to the nearest integer
IntOfRounded(num, den) ==
    IF 2 * num + den >= 0 THEN (2 * num + den) \div (2 * den)
    ELSE -((-(2 * num + den)) \div (2 * den))

\* int(x) for the value x = num / den (den > 0): truncation toward zero
IntOf(num, den) ==
    IF num >= 0 THEN num \div den ELSE -((-num) \div den)

\* as get_asm_bgc_coords_on_ref, without cutting the BGC to the aligned part
get_asm_bgc_coords_on_ref_NoCut(assembly_bgc_start, assembly_bgc_end, a) ==
    LET N == a.ref_end - a.ref_start + 1
        D == Abs(a.assembly_end - a.assembly_start) + 1
        reversed == a.assembly_start > a.assembly_end
    IN IF ~reversed
       THEN <<IntOf(a.ref_start * D + (assembly_bgc_start - a.assembly_start) * N, D),
              IntOf(a.ref_end * D - (a.assembly_end - assembly_bgc_end) * N, D),
              reversed>>
       ELSE <<IntOf(a.ref_start * D + (a.assembly_start - assembly_bgc_end) * N, D),
              IntOf(a.ref_end * D - (assembly_bgc_start - a.assembly_end) * N, D),
              reversed>>

\* as get_asm_bgc_coords_on_ref, with the forward formulas in the reverse branch
get_asm_bgc_coords_on_ref_NoSwap(assembly_bgc_start, assembly_bgc_end, a) ==
    LET N == a.ref_end - a.ref_start + 1
        D == Abs(a.assembly_end - a.assembly_start) + 1
        reversed == a.assembly_start > a.assembly_end
        lo == Min(a.assembly_start, a.assembly_end)
        hi == Max(a.assembly_start, a.assembly_end)
        bgc_start == Max(assembly_bgc_start, lo)
        bgc_end == Min(assembly_bgc_end, hi)
    IN <<IntOf(a.ref_start * D + (bgc_start - lo) * N, D),
         IntOf(a.ref_end * D - (hi - bgc_end) * N, D),
         reversed>>

\* as get_asm_bgc_coords_on_ref, with the end mapped from the start of the
\* aligned part in the forward branch
get_asm_bgc_coords_on_ref_EndFromStart(assembly_bgc_start, assembly_bgc_end, a) ==
    LET N == a.ref_end - a.ref_start + 1
        D == Abs(a.assembly_end - a.assembly_start) + 1
        reversed == a.assembly_start > a.assembly_end
    IN IF ~reversed
       THEN LET bgc_start == Max(assembly_bgc_start, a.assembly_start)
                bgc_end == Min(assembly_bgc_end, a.assembly_end)
            IN <<IntOf(a.ref_start * D + (bgc_start - a.assembly_start) * N, D),
                 IntOf(a.ref_end * D - (bgc_end - a.assembly_start) * N, D),
                 reversed>>
       ELSE LET bgc_start == Max(assembly_bgc_start, a.assembly_end)
                bgc_end == Min(assembly_bgc_end, a.assembly_start)
            IN <<IntOf(a.ref_start * D + (a.assembly_start - bgc_end) * N, D),
                 IntOf(a.ref_end * D - (bgc_start - a.assembly_end) * N, D),
                 reversed>>

\* get_asm_bgc_coords_on_ref.  diff_factor is the quotient N / D; the float
\* expressions ref_start + k * diff_factor and ref_end - k * diff_factor are
\* the rationals (ref_start * D + k * N) / D and (ref_end * D - k * N) / D.
get_asm_bgc_coords_on_ref(assembly_bgc_start, assembly_bgc_end, a) ==
    LET N == a.ref_end - a.ref_start + 1
        D == Abs(a.assembly_end - a.assembly_start) + 1
        reversed == a.assembly_start > a.assembly_end
    IN IF ~reversed
       THEN LET bgc_start == Max(assembly_bgc_start, a.assembly_start)
                bgc_end == Min(assembly_bgc_end, a.assembly_end)
            IN <<IntOf(a.ref_start * D + (bgc_start - a.assembly_start) * N, D),
                 IntOf(a.ref_end * D - (a.assembly_end - bgc_end) * N, D),
                 reversed>>
       ELSE LET bgc_start == Max(assembly_bgc_start, a.assembly_end)
                bgc_end == Min(assembly_bgc_end, a.assembly_start)
            IN <<IntOf(a.ref_start * D + (a.assembly_start - bgc_end) * N, D),
                 IntOf(a.ref_end * D - (bgc_start - a.assembly_end) * N, D),
                 reversed>>

----------------------------------------------------------------------------
(* Mapper specification *)

\* assembly coordinates of the enumerated alignments are 0..MaxAsm
MaxAsm == 4
\* reference coordinates of the enumerated alignments are 0..MaxRef
MaxRef == 4

GridAlignments ==
    { AlignmentInfo("asm_seq_id", "ref_seq_id", r[1], r[2], a[1], a[2]) :
        r \in { q \in (0..MaxRef) \X (0..MaxRef) : q[1] <= q[2] },
        a \in (0..MaxAsm) \X (0..MaxAsm) }

\* the alignments of test_map_coordinates_forward and test_map_coordinates_reverse
ForwardTestAlignment == AlignmentInfo("asm_seq_id", "ref_seq_id", 1000, 1100, 100, 200)
ReverseTestAlignment == AlignmentInfo("asm_seq_id", "ref_seq_id", 900, 1005, 200, 100)

\* the guard of get_intersecting_bgcs_from_alignment
OverlapsAlignment(s, e, a) ==
    /\ s <= Max(a.assembly_end, a.assembly_start)
    /\ e >= Min(a.assembly_start, a.assembly_end)

InitMap ==
    /\ InputIdle
    /\ pc = "start"
    /\ mapped = None
    /\ \/ /\ alignment \in GridAlignments
          /\ query \in { q \in (0..(MaxAsm + 1)) \X (0..(MaxAsm + 1)) :
                           q[1] <= q[2] /\ OverlapsAlignment(q[1], q[2], alignment) }
       \/ /\ alignment = ForwardTestAlignment
          /\ query \in { <<120, 180>>, <<90, 210>>, <<100, 200>> }
       \/ /\ alignment = ReverseTestAlignment
          /\ query \in { <<150, 180>>, <<90, 210>>, <<100, 200>> }
    /\ allowed_gap = 0
    /\ ClassifierIdle
    /\ EngineIdle
    /\ RunsIdle

MapCoords ==
    /\ pc = "start"
    /\ mapped' = get_asm_bgc_coords_on_ref(query[1], query[2], alignment)
    /\ pc' = "done"
    /\ UNCHANGED inputVars
    /\ UNCHANGED runVars
    /\ UNCHANGED <<allowed_gap, ref_bgc, status, alignment, query,
                   genome_mining_result, reference_genome_mining_result,
                   quast_result, ref_bgcs>>

NextMap == MapCoords

SpecMap == InitMap /\ [][NextMap]_vars

----------------------------------------------------------------------------
(* Mapper claims *)

\* m is the rational num / den (den > 0) with its fractional part dropped
IsTruncationOf(m, num, den) ==
    IF num >= 0
    THEN m >= 0 /\ m * den <= num /\ num < (m + 1) * den
    ELSE m <= 0 /\ m * den >= num /\ num > (m - 1) * den

LoA == Min(alignment.assembly_start, alignment.assembly_end)
HiA == Max(alignment.assembly_start, alignment.assembly_end)
ClippedStart == Max(query[1], LoA)
ClippedEnd == Min(query[2], HiA)
\* numerator and denominator of diffFactor
RefLen == alignment.ref_end - alignment.ref_start + 1
AsmLen == Abs(alignment.assembly_end - alignment.assembly_start) + 1
IsForward == alignment.assembly_start <= alignment.assembly_end

\* C6: for a forward alignment and an overlapping query, reversed is false,
\* mappedStart = trunc(ref_start + (clippedQueryStart - assembly_start) * diffFactor)
\* and mappedEnd = trunc(ref_end - (assembly_end - clippedQueryEnd) * diffFactor);
\* assembly[100,200] -> ref[1000,1100] maps [120,180] to (1020, 1080, false).
C6_ForwardMapping ==
    (pc = "done" /\ IsForward) =>
        /\ mapped[3] = FALSE
        /\ IsTruncationOf(mapped[1],
              alignment.ref_start * AsmLen
                  + (ClippedStart - alignment.assembly_start) * RefLen, AsmLen)
        /\ IsTruncationOf(mapped[2],
              alignment.ref_end * AsmLen
                  - (alignment.assembly_end - ClippedEnd) * RefLen, AsmLen)
        /\ (alignment = ForwardTestAlignment /\ query = <<120, 180>>)
              => mapped = <<1020, 1080, FALSE>>

\* a forward mapping whose exact start has a fractional part of at least 1/2
C6_Witness ==
    /\ pc = "done"
    /\ IsForward
    /\ query[1] > alignment.assembly_start
    /\ 2 * (alignment.ref_start * AsmLen
              + (ClippedStart - alignment.assembly_start) * RefLen
              - mapped[1] * AsmLen) >= AsmLen

\* C7: reversed is true exactly when assembly_start > assembly_end, and then
\* mappedStart = trunc(ref_start + (assembly_start - clippedQueryEnd) * diffFactor)
\* and mappedEnd = trunc(ref_end - (clippedQueryStart - assembly_end) * diffFactor);
\* assembly 200..100 -> ref[900,1005] maps [150,180] to (920, 952, true).
C7_ReverseMapping ==
    pc = "done" =>
        /\ mapped[3] = (alignment.assembly_start > alignment.assembly_end)
        /\ mapped[3] =>
              /\ IsTruncationOf(mapped[1],
                    alignment.ref_start * AsmLen
                        + (alignment.assembly_start - ClippedEnd) * RefLen, AsmLen)
              /\ IsTruncationOf(mapped[2],
                    alignment.ref_end * AsmLen
                        - (ClippedStart - alignment.assembly_end) * RefLen, AsmLen)
        /\ (alignment = ReverseTestAlignment /\ query = <<150, 180>>)
              => mapped = <<920, 952, TRUE>>

\* the reverse test scenario has been mapped
C7_Witness ==
    /\ pc = "done"
    /\ alignment = ReverseTestAlignment
    /\ query = <<150, 180>>
    /\ mapped[3] = TRUE

\* C8: the query is clipped to the assembly extent [LoA, HiA] of the alignment
\* before projecting: the result is the result for the clipped query, and a
\* query covering the whole aligned block maps exactly to [ref_start, ref_end].
C8_ClippedToAlignedBlock ==
    pc = "done" =>
        /\ mapped = get_asm_bgc_coords_on_ref(ClippedStart, ClippedEnd, alignment)
        /\ (query[1] <= LoA /\ query[2] >= HiA)
              => (mapped[1] = alignment.ref_start /\ mapped[2] = alignment.ref_end)

\* a reverse alignment whose block the query overhangs on both sides
C8_Witness ==
    /\ pc = "done"
    /\ ~IsForward
    /\ query[1] < LoA
    /\ query[2] > HiA
    /\ RefLen # AsmLen
    /\ mapped = <<alignment.ref_start, alignment.ref_end, TRUE>>

\* queries inside the aligned block whose bounds are not below the bounds of
\* the (clipped) current query
LaterQueries ==
    { q \in (LoA..HiA) \X (LoA..HiA) :
        q[1] <= q[2] /\ q[1] >= ClippedStart /\ q[2] >= ClippedEnd }

\* C9: within one alignment block the mapping is monotonic: a forward
\* alignment maps larger-or-equal query bounds to larger-or-equal mapped
\* bounds, a reverse alignment to smaller-or-equal ones, after truncation.
C9_MonotonicWithinBlock ==
    pc = "done" =>
        \A q \in LaterQueries :
            LET m == get_asm_bgc_coords_on_ref(q[1], q[2], alignment) IN
            IF IsForward
            THEN m[1] >= mapped[1] /\ m[2] >= mapped[2]
            ELSE m[1] <= mapped[1] /\ m[2] <= mapped[2]

\* a forward alignment with a scale factor other than 1 and a later query
\* that maps strictly further on both bounds
C9_Witness ==
    /\ pc = "done"
    /\ IsForward
    /\ RefLen > AsmLen
    /\ \E q \in LaterQueries :
          LET m == get_asm_bgc_coords_on_ref(q[1], q[2], alignment) IN
          m[1] > mapped[1] /\ m[2] > mapped[2]

\* C28: for every alignment with ref_start <= ref_end and every query region
\* with queryStart <= queryEnd overlapping the assembly extent of the
\* alignment, in both orientations and for every length ratio, the mapped
\* interval is well formed and lies inside the reference extent:
\* ref_start <= mappedStart <= mappedEnd <= ref_end.
C28_MappedIntervalInsideReferenceExtent ==
    pc = "done" =>
        /\ alignment.ref_start <= mapped[1]
        /\ mapped[1] <= mapped[2]
        /\ mapped[2] <= alignment.ref_end

----------------------------------------------------------------------------
(* get_intersecting_bgcs_from_alignment, compute_reference_coverage *)

\* as get_intersecting_bgcs_from_alignment, without the test that the
\* assembly BGC overlaps the aligned part of the assembly sequence
RECURSIVE get_intersecting_bgcs_from_alignment_NoGuard(_, _, _)
get_intersecting_bgcs_from_alignment_NoGuard(rb, a, bgcs_on_aligned_sequence) ==
    IF bgcs_on_aligned_sequence = <<>> THEN <<>>
    ELSE LET assembly_bgc == Head(bgcs_on_aligned_sequence)
             rest == get_intersecting_bgcs_from_alignment_NoGuard(
                         rb, a, Tail(bgcs_on_aligned_sequence))
             m == get_asm_bgc_coords_on_ref(assembly_bgc.start, assembly_bgc.end, a)
         IN IF m[1] <= rb.end /\ m[2] >= rb.start
            THEN <<Intersection(assembly_bgc, m[1], m[2], m[3])>> \o rest
            ELSE rest

\* get_intersecting_bgcs_from_alignment: the loop over bgcs_on_aligned_sequence
RECURSIVE get_intersecting_bgcs_from_alignment(_, _, _)
get_intersecting_bgcs_from_alignment(rb, a, bgcs_on_aligned_sequence) ==
    IF bgcs_on_aligned_sequence = <<>> THEN <<>>
    ELSE LET assembly_bgc == Head(bgcs_on_aligned_sequence)
             rest == get_intersecting_bgcs_from_alignment(
                         rb, a, Tail(bgcs_on_aligned_sequence))
         IN IF /\ assembly_bgc.start <= Max(a.assembly_end, a.assembly_start)
               /\ assembly_bgc.end >= Min(a.assembly_start, a.assembly_end)
            THEN LET m == get_asm_bgc_coords_on_ref(
                              assembly_bgc.start, assembly_bgc.end, a)
                 IN IF m[1] <= rb.end /\ m[2] >= rb.start
                    THEN <<Intersection(assembly_bgc, m[1], m[2], m[3])>> \o rest
                    ELSE rest
            ELSE rest

\* dict.get(key, default)
Get(d, key, default) == IF key \in DOMAIN d THEN d[key] ELSE default

\* assembly_bgcs_by_seq_id.get(seq_id, []): the BGCs of one sequence, in input order
BgcsBySeqId(bgcs, seq_id) ==
    SelectSeq(bgcs, LAMBDA b : b.sequence_id = seq_id)

\* the loop over relevant_alignments: intersections.extend(...) per alignment
RECURSIVE CollectIntersections(_, _, _)
CollectIntersections(rb, relevant_alignments, bgcs) ==
    IF relevant_alignments = <<>> THEN <<>>
    ELSE get_intersecting_bgcs_from_alignment(
             rb, Head(relevant_alignments),
             BgcsBySeqId(bgcs, Head(relevant_alignments).assembly_seq_id))
         \o CollectIntersections(rb, Tail(relevant_alignments), bgcs)

\* x put into a list sorted by start_in_ref, behind the entries with the same key
RECURSIVE InsertByStart(_, _)
InsertByStart(sorted, x) ==
    IF sorted = <<>> THEN <<x>>
    ELSE IF Head(sorted).start_in_ref <= x.start_in_ref
    THEN <<Head(sorted)>> \o InsertByStart(Tail(sorted), x)
    ELSE <<x>> \o sorted

\* sorted(intersections, key=lambda x: x.start_in_ref): a stable sort
RECURSIVE SortedByStart(_)
SortedByStart(ints) ==
    IF ints = <<>> THEN <<>>
    ELSE InsertByStart(SortedByStart(SubSeq(ints, 1, Len(ints) - 1)), ints[Len(ints)])

\* as CoverageOfRefBgc, but the intersections stay in the order they were found
CoverageOfRefBgc_Unsorted(bgc, bgcs, reference_sequences) ==
    LET rb == from_bgc(bgc)
        relevant_alignments == Get(reference_sequences, rb.sequence_id, <<>>)
        intersections == CollectIntersections(rb, relevant_alignments, bgcs)
        with_ints == [rb EXCEPT !.intersecting_assembly_bgcs = intersections]
    IN [with_ints EXCEPT !.status = determine_ref_bgc_status(with_ints)]

\* the body of the loop over the reference BGCs
CoverageOfRefBgc(bgc, bgcs, reference_sequences) ==
    LET rb == from_bgc(bgc)
        relevant_alignments == Get(reference_sequences, rb.sequence_id, <<>>)
        intersections == CollectIntersections(rb, relevant_alignments, bgcs)
        with_ints == [rb EXCEPT !.intersecting_assembly_bgcs = SortedByStart(intersections)]
    IN [with_ints EXCEPT !.status = determine_ref_bgc_status(with_ints)]

\* as compute_reference_coverage, with each ReferenceBgc put at the front of the list
compute_reference_coverage_Prepending(bgcs, reference_sequences, reference_bgcs) ==
    [i \in 1..Len(reference_bgcs) |->
        CoverageOfRefBgc(reference_bgcs[Len(reference_bgcs) + 1 - i], bgcs,
                         reference_sequences)]

compute_reference_coverage(bgcs, reference_sequences, reference_bgcs) ==
    [i \in 1..Len(reference_bgcs) |->
        CoverageOfRefBgc(reference_bgcs[i], bgcs, reference_sequences)]

----------------------------------------------------------------------------
(* Engine specification *)

\* coordinates of the enumerated engine inputs are 0..MaxEngCoord
MaxEngCoord == 2
\* most assembly BGCs in one enumerated genome mining result
MaxAsmBgcs == 2

EngIntervals == { q \in (0..MaxEngCoord) \X (0..MaxEngCoord) : q[1] <= q[2] }
AsmSeqIds == { "asm_id_1", "asm_id_2" }
RefSeqIds == { "ref_id", "other_ref_id" }

\* every alignment of a reference segment with an assembly segment, both orientations
EngAlignments ==
    { AlignmentInfo(sq, "ref_id", r[1], r[2], a[1], a[2]) :
        sq \in AsmSeqIds, r \in EngIntervals,
        a \in (0..MaxEngCoord) \X (0..MaxEngCoord) }

\* alignments that are combined in lists of two
PairedAlignments ==
    { AlignmentInfo("asm_id_1", "ref_id", 0, 2, 0, 2),
      AlignmentInfo("asm_id_1", "ref_id", 0, 2, 2, 0),
      AlignmentInfo("asm_id_1", "ref_id", 0, 0, 1, 2),
      AlignmentInfo("asm_id_1", "ref_id", 0, 2, 0, 0),
      AlignmentInfo("asm_id_2", "ref_id", 1, 2, 0, 1),
      AlignmentInfo("asm_id_2", "ref_id", 0, 1, 2, 1) }

PairedAlignmentLists ==
    { <<>> } \cup { <<a>> : a \in PairedAlignments }
    \cup { <<a, b>> : a \in PairedAlignments, b \in PairedAlignments }

\* the n-th assembly BGC of a genome mining result
AsmBgcIds == <<"asm_bgc_1", "asm_bgc_2", "asm_bgc_3", "asm_bgc_4">>

AsmBgcs(n) ==
    { Bgc(AsmBgcIds[n], sq, q[1], q[2]) : sq \in AsmSeqIds, q \in EngIntervals }

RECURSIVE AsmBgcLists(_)
AsmBgcLists(n) ==
    IF n = 0 THEN { <<>> }
    ELSE LET shorter == AsmBgcLists(n - 1) IN
         shorter \cup
         { Append(l, b) : l \in { m \in shorter : Len(m) = n - 1 }, b \in AsmBgcs(n) }

InitRefCov ==
    /\ InputIdle
    /\ pc = "start"
    /\ ref_bgcs = <<>>
    /\ \/ /\ \E a \in EngAlignments : quast_result = [k \in {"ref_id"} |-> <<a>>]
          /\ \E b \in AsmBgcs(1) : genome_mining_result = <<b>>
          /\ \E sq \in RefSeqIds, q \in EngIntervals :
                reference_genome_mining_result = <<Bgc("ref_bgc_1", sq, q[1], q[2])>>
       \/ /\ \E alns \in PairedAlignmentLists :
                quast_result = [k \in {"ref_id"} |-> alns]
          /\ genome_mining_result \in AsmBgcLists(MaxAsmBgcs)
          /\ \E q \in EngIntervals :
                reference_genome_mining_result = <<Bgc("ref_bgc_1", "ref_id", q[1], q[2])>>
       \/ /\ \E alns \in { l \in PairedAlignmentLists : Len(l) <= 1 } :
                quast_result = [k \in {"ref_id"} |-> alns]
          /\ genome_mining_result \in AsmBgcLists(1)
          /\ \E s1 \in RefSeqIds, q1 \in EngIntervals, s2 \in RefSeqIds, q2 \in EngIntervals :
                reference_genome_mining_result =
                    <<Bgc("ref_bgc_1", s1, q1[1], q1[2]), Bgc("ref_bgc_2", s2, q2[1], q2[2])>>
    /\ allowed_gap \in {0, 100}
    /\ ClassifierIdle
    /\ MapperIdle
    /\ RunsIdle

\* ref_bgcs = compute_reference_coverage(genome_mining_result, quast_result,
\* reference_genome_mining_result); as for the classifier, the configured
\* allowed_gap is not among its parameters
ComputeReferenceCoverage ==
    /\ pc = "start"
    /\ ref_bgcs' = compute_reference_coverage(
                       genome_mining_result, quast_result,
                       reference_genome_mining_result)
    /\ pc' = "done"
    /\ UNCHANGED inputVars
    /\ UNCHANGED runVars
    /\ UNCHANGED <<allowed_gap, ref_bgc, status, alignment, query, mapped,
                   genome_mining_result, reference_genome_mining_result,
                   quast_result>>

NextRefCov == ComputeReferenceCoverage

SpecRefCov == InitRefCov /\ [][NextRefCov]_vars

----------------------------------------------------------------------------
(* Engine claims *)

\* the alignments listed for the sequence of the reference region r
AlignmentsFor(r) ==
    IF r.sequence_id \in DOMAIN quast_result THEN quast_result[r.sequence_id] ELSE <<>>

\* two closed intervals share a position
ShareAPosition(s1, e1, s2, e2) == Max(s1, s2) <= Min(e1, e2)

OnAlignedSequence(r, p) ==
    genome_mining_result[p[2]].sequence_id = AlignmentsFor(r)[p[1]].assembly_seq_id

OverlapsAlignedExtent(r, p) ==
    LET al == AlignmentsFor(r)[p[1]]
        a == genome_mining_result[p[2]]
    IN ShareAPosition(a.start, a.end,
                      Min(al.assembly_start, al.assembly_end),
                      Max(al.assembly_start, al.assembly_end))

MappedOf(r, p) ==
    LET a == genome_mining_result[p[2]]
    IN get_asm_bgc_coords_on_ref(a.start, a.end, AlignmentsFor(r)[p[1]])

MappedOverlaps(r, p) ==
    MappedOf(r, p)[1] <= r.end /\ MappedOf(r, p)[2] >= r.start

\* the (alignment, assembly region) pairs, by position, that yield an Intersection
QualifyingPairs(r) ==
    { p \in (1..Len(AlignmentsFor(r))) \X (1..Len(genome_mining_result)) :
        /\ OnAlignedSequence(r, p)
        /\ OverlapsAlignedExtent(r, p)
        /\ MappedOverlaps(r, p) }

ExpectedIntersection(r, p) ==
    Intersection(genome_mining_result[p[2]],
                 MappedOf(r, p)[1], MappedOf(r, p)[2], MappedOf(r, p)[3])

\* C10: the intersections collected for a reference region are exactly one
\* Intersection per (alignment, assembly region) pair such that the alignment
\* is listed for the region's sequence, the assembly region lies on the
\* alignment's assembly sequence, overlaps its assembly extent and its mapped
\* extent overlaps the reference region; no other pair yields one.
C10_IntersectionsAreQualifyingPairs ==
    pc = "done" =>
        \A i \in 1..Len(ref_bgcs) :
            LET r == ref_bgcs[i]
                ints == r.intersecting_assembly_bgcs
                qp == QualifyingPairs(r)
            IN /\ Len(ints) = Cardinality(qp)
               /\ \A p \in qp :
                     Cardinality({ k \in 1..Len(ints) : ints[k] = ExpectedIntersection(r, p) })
                       = Cardinality({ p2 \in qp :
                             ExpectedIntersection(r, p2) = ExpectedIntersection(r, p) })

\* two intersections were collected while one assembly region on the aligned
\* sequence lies outside the aligned extent of an alignment and yields none
C10_Witness ==
    /\ pc = "done"
    /\ \E i \in 1..Len(ref_bgcs) :
          LET r == ref_bgcs[i] IN
          /\ Len(r.intersecting_assembly_bgcs) = 2
          /\ \E p \in (1..Len(AlignmentsFor(r))) \X (1..Len(genome_mining_result)) :
                /\ OnAlignedSequence(r, p)
                /\ ~OverlapsAlignedExtent(r, p)
                /\ MappedOverlaps(r, p)


\* the status the classification rules give a reference region from its
\* intersections: none, one that contains it, a last running range that covers it
ExpectedStatus(r) ==
    LET ints == r.intersecting_assembly_bgcs IN
    IF Len(ints) = 0 THEN MISSED
    ELSE IF \E k \in 1..Len(ints) : Contains(ints[k], r) THEN COVERED
    ELSE IF LastRunCovers(r) THEN COVERED_BY_FRAGMENTS
    ELSE PARTIALLY_COVERED

\* C13: compute_reference_coverage returns exactly one ReferenceBgc per input
\* reference region, in input order, with the id, sequence, start and end of
\* its source region and the status classified from its own intersections; a
\* region whose sequence has no alignments has no intersections and is MISSED.
C13_OneReferenceBgcPerRegionInOrder ==
    pc = "done" =>
        /\ Len(ref_bgcs) = Len(reference_genome_mining_result)
        /\ \A i \in 1..Len(ref_bgcs) :
              LET r == ref_bgcs[i]
                  src == reference_genome_mining_result[i]
              IN /\ r.bgc_id = src.bgc_id
                 /\ r.sequence_id = src.sequence_id
                 /\ r.start = src.start
                 /\ r.end = src.end
                 /\ r.status = ExpectedStatus(r)
                 /\ AlignmentsFor(r) = <<>> =>
                       (r.intersecting_assembly_bgcs = <<>> /\ r.status = MISSED)

\* two reference regions: the first on a sequence without alignments, the
\* second with an intersection
C13_Witness ==
    /\ pc = "done"
    /\ Len(ref_bgcs) = 2
    /\ ref_bgcs[1].sequence_id \notin DOMAIN quast_result
    /\ ref_bgcs[1].status = MISSED
    /\ ref_bgcs[2].bgc_id = "ref_bgc_2"
    /\ ref_bgcs[2].status # MISSED
    /\ <<ref_bgcs[1].start, ref_bgcs[1].end>> # <<ref_bgcs[2].start, ref_bgcs[2].end>>


----------------------------------------------------------------------------
(* compute_coverage *)

\* GenomeMiningResult, with the display_label the label code sets on it
GenomeMiningResult(input_file, input_file_label, display_label, mining_tool, bgcs) ==
    [input_file |-> input_file, input_file_label |-> input_file_label,
     display_label |-> display_label, mining_tool |-> mining_tool, bgcs |-> bgcs]

\* QuastResult: the fields compute_coverage reads
QuastResult(input_file_label, reference_sequences) ==
    [input_file_label |-> input_file_label, reference_sequences |-> reference_sequences]

ValueError == "ValueError"

\* next((quast for quast in quast_results if quast.input_file_label == label), None):
\* the position of the first match, 0 for None
CorrespondingQuastResult(quasts, label) ==
    IF \E j \in 1..Len(quasts) : quasts[j].input_file_label = label
    THEN CHOOSE j \in 1..Len(quasts) :
            /\ quasts[j].input_file_label = label
            /\ \A k \in 1..(j - 1) : quasts[k].input_file_label # label
    ELSE 0

\* d[key] = value on a dict kept as the sequence of its <<key, value>> items
\* in insertion order
DictSet(d, key, value) ==
    IF \E k \in 1..Len(d) : d[k][1] = key
    THEN [k \in 1..Len(d) |-> IF d[k][1] = key THEN <<key, value>> ELSE d[k]]
    ELSE Append(d, <<key, value>>)

\* as CoverageLoop, but a result without QUAST result is skipped
RECURSIVE CoverageLoopSkipping(_, _, _, _, _)
CoverageLoopSkipping(runs, quasts, reference_bgcs, i, ref_bgc_cov) ==
    IF i > Len(runs) THEN [error |-> None, value |-> ref_bgc_cov]
    ELSE LET j == CorrespondingQuastResult(quasts, runs[i].input_file_label) IN
         IF j = 0
         THEN CoverageLoopSkipping(runs, quasts, reference_bgcs, i + 1, ref_bgc_cov)
         ELSE CoverageLoopSkipping(runs, quasts, reference_bgcs, i + 1,
                  DictSet(ref_bgc_cov, runs[i].input_file,
                          compute_reference_coverage(
                              runs[i].bgcs, quasts[j].reference_sequences,
                              reference_bgcs)))

\* as CoverageLoop, but the ReferenceBgc objects are shared by the runs: the
\* statuses of the latest run show in the lists of the earlier runs
RECURSIVE CoverageLoop_SharedRegions(_, _, _, _, _)
CoverageLoop_SharedRegions(runs, quasts, reference_bgcs, i, ref_bgc_cov) ==
    IF i > Len(runs) THEN [error |-> None, value |-> ref_bgc_cov]
    ELSE LET j == CorrespondingQuastResult(quasts, runs[i].input_file_label) IN
         IF j = 0
         THEN [error |-> ValueError, value |-> <<>>]
         ELSE LET shared == compute_reference_coverage(
                                runs[i].bgcs, quasts[j].reference_sequences, reference_bgcs)
                  cov == DictSet(ref_bgc_cov, runs[i].input_file, shared)
              IN CoverageLoop_SharedRegions(runs, quasts, reference_bgcs, i + 1,
                     [k \in 1..Len(cov) |-> <<cov[k][1], shared>>])

\* the loop of compute_coverage over genome_mining_results from position i on
RECURSIVE CoverageLoop(_, _, _, _, _)
CoverageLoop(runs, quasts, reference_bgcs, i, ref_bgc_cov) ==
    IF i > Len(runs) THEN [error |-> None, value |-> ref_bgc_cov]
    ELSE LET j == CorrespondingQuastResult(quasts, runs[i].input_file_label) IN
         IF j = 0
         THEN [error |-> ValueError, value |-> <<>>]
         ELSE CoverageLoop(runs, quasts, reference_bgcs, i + 1,
                  DictSet(ref_bgc_cov, runs[i].input_file,
                          compute_reference_coverage(
                              runs[i].bgcs, quasts[j].reference_sequences,
                              reference_bgcs)))

compute_coverage(genome_mining_results, reference_bgcs, quasts) ==
    CoverageLoop(genome_mining_results, quasts, reference_bgcs, 1, <<>>)

----------------------------------------------------------------------------
(* compute_coverage specification *)

\* most genome mining results handed to compute_coverage
MaxCovRuns == 2
\* most QUAST results handed to compute_coverage
MaxQuasts == 2

CovInputFiles == { "asm_1.fasta", "asm_2.fasta" }
CovRunLabels == { "asm_label_1", "asm_label_2" }
CovQuastLabels == CovRunLabels \cup { "wrong_label" }

CovBgcLists ==
    { <<>>, <<Bgc("asm_bgc_1", "asm_id_1", 0, 2)>>, <<Bgc("asm_bgc_1", "asm_id_1", 1, 1)>> }

CovRuns ==
    { GenomeMiningResult(f, l, None, "dummy_tool", b) :
        f \in CovInputFiles, l \in CovRunLabels, b \in CovBgcLists }

CovReferenceSequences ==
    { [k \in {"ref_id"} |-> <<>>],
      [k \in {"ref_id"} |-> <<AlignmentInfo("asm_id_1", "ref_id", 0, 2, 0, 2)>>],
      [k \in {"ref_id"} |-> <<AlignmentInfo("asm_id_1", "ref_id", 1, 2, 2, 1)>>] }

CovQuasts ==
    { QuastResult(l, rs) : l \in CovQuastLabels, rs \in CovReferenceSequences }

\* the lists of at most n elements of S
RECURSIVE ListsOf(_, _)
ListsOf(S, n) ==
    IF n = 0 THEN { <<>> }
    ELSE LET shorter == ListsOf(S, n - 1) IN
         shorter \cup { Append(l, x) : l \in { m \in shorter : Len(m) = n - 1 }, x \in S }

InitCoverage ==
    /\ InputIdle
    /\ pc = "start"
    /\ results \in ListsOf(CovRuns, MaxCovRuns)
    /\ quast_results \in ListsOf(CovQuasts, MaxQuasts)
    /\ reference_genome_mining_result \in
          { <<Bgc("ref_bgc_1", "ref_id", 0, 2)>>, <<Bgc("ref_bgc_1", "ref_id", 1, 2)>> }
    /\ ref_bgc_coverage = NoResult
    /\ allowed_gap = 100
    /\ genome_mining_result = <<>>
    /\ quast_result = <<>>
    /\ ref_bgcs = <<>>
    /\ ClassifierIdle
    /\ MapperIdle
    /\ UniquenessIdle
    /\ GeometryIdle

\* ref_bgc_coverage = compute_coverage(results, reference, quast_results), or
\* the ValueError it raises
ComputeCoverage ==
    /\ pc = "start"
    /\ ref_bgc_coverage' = compute_coverage(results, reference_genome_mining_result,
                                            quast_results)
    /\ pc' = "done"
    /\ UNCHANGED inputVars
    /\ UNCHANGED <<allowed_gap, ref_bgc, status, alignment, query, mapped,
                   genome_mining_result, reference_genome_mining_result,
                   quast_result, ref_bgcs, results, quast_results,
                   overlap_threshold, uniqueness, intervals, overlap>>

NextCoverage == ComputeCoverage

SpecCoverage == InitCoverage /\ [][NextCoverage]_vars

----------------------------------------------------------------------------
(* compute_coverage claims *)

HasQuast(run) ==
    \E j \in 1..Len(quast_results) :
        quast_results[j].input_file_label = run.input_file_label

\* C11: compute_coverage fails (ValueError "No QUAST result found") if and
\* only if some assembly run has no alignment set with the run's label;
\* nothing in the data makes it fail otherwise.
C11_FailsIffUnmatchedRun ==
    pc = "done" =>
        (ref_bgc_coverage.error = ValueError
            <=> \E i \in 1..Len(results) : ~HasQuast(results[i]))

\* the first run has its alignment set, the second has none
C11_Witness ==
    /\ pc = "done"
    /\ Len(results) = 2
    /\ HasQuast(results[1])
    /\ ~HasQuast(results[2])
    /\ ref_bgc_coverage.error = ValueError

\* the alignment set matched to a run: the first with the run's label
MatchedQuast(run) ==
    quast_results[CHOOSE j \in 1..Len(quast_results) :
        /\ quast_results[j].input_file_label = run.input_file_label
        /\ \A k \in 1..(j - 1) :
              quast_results[k].input_file_label # run.input_file_label]

\* C12: when every run has a matching alignment set, compute_coverage returns
\* exactly one (run, reference regions) pair per input run, in input order,
\* also when two runs share the source file or the label, each with the
\* result of compute_reference_coverage for that run and its alignment set.
C12_OnePairPerRunInOrder ==
    (pc = "done" /\ \A i \in 1..Len(results) : HasQuast(results[i])) =>
        /\ ref_bgc_coverage.error = None
        /\ Len(ref_bgc_coverage.value) = Len(results)
        /\ \A i \in 1..Len(results) :
              /\ ref_bgc_coverage.value[i][1] = results[i].input_file
              /\ ref_bgc_coverage.value[i][2] =
                    compute_reference_coverage(
                        results[i].bgcs, MatchedQuast(results[i]).reference_sequences,
                        reference_genome_mining_result)


----------------------------------------------------------------------------
(* overlap_len, coverage_of_a_by_b *)

\* as overlap_len, but only the first interval is put in ascending order
overlap_len_FirstNormalizedOnly(a_start, a_end, b_start, b_end) ==
    LET a1 == IF a_end < a_start THEN a_end ELSE a_start
        a2 == IF a_end < a_start THEN a_start ELSE a_end
        left == Max(a1, b_start)
        right == Min(a2, b_end)
    IN IF right < left THEN 0 ELSE right - left + 1

\* overlap_len: overlap length of two closed intervals
overlap_len(a_start, a_end, b_start, b_end) ==
    LET a1 == IF a_end < a_start THEN a_end ELSE a_start
        a2 == IF a_end < a_start THEN a_start ELSE a_end
        b1 == IF b_end < b_start THEN b_end ELSE b_start
        b2 == IF b_end < b_start THEN b_start ELSE b_end
        left == Max(a1, b1)
        right == Min(a2, b2)
    IN IF right < left THEN 0 ELSE right - left + 1

\* as coverage_of_a_by_b, but the length of a is a.end - a.start
coverage_of_a_by_b_OpenLength(a, b) ==
    LET a_len == Max(0, a.end - a.start) IN
    IF a_len = 0 THEN <<0, 1>>
    ELSE <<overlap_len(a.start, a.end, b.start, b.end), a_len>>

\* coverage_of_a_by_b as the fraction <<ov, a_len>>; <<0, 1>> is the 0.0
\* returned for a_len == 0
coverage_of_a_by_b(a, b) ==
    LET a_len == Max(0, a.end - a.start + 1) IN
    IF a_len = 0 THEN <<0, 1>>
    ELSE <<overlap_len(a.start, a.end, b.start, b.end), a_len>>

----------------------------------------------------------------------------
(* Geometry specification *)

\* interval bounds handed to overlap_len are 0..MaxGeo
MaxGeo == 4

InitGeometry ==
    /\ InputIdle
    /\ pc = "start"
    /\ \/ intervals \in (0..MaxGeo) \X (0..MaxGeo) \X (0..MaxGeo) \X (0..MaxGeo)
       \/ intervals = <<10, 20, 20, 30>>
    /\ overlap = 0
    /\ results = <<>>
    /\ allowed_gap = 0
    /\ ClassifierIdle
    /\ MapperIdle
    /\ EngineIdle
    /\ CoverageIdle
    /\ UniquenessIdle

OverlapLen ==
    /\ pc = "start"
    /\ overlap' = overlap_len(intervals[1], intervals[2], intervals[3], intervals[4])
    /\ pc' = "done"
    /\ UNCHANGED inputVars
    /\ UNCHANGED <<allowed_gap, ref_bgc, status, alignment, query, mapped,
                   genome_mining_result, reference_genome_mining_result,
                   quast_result, ref_bgcs, results, quast_results, ref_bgc_coverage,
                   overlap_threshold, uniqueness, intervals>>

NextGeometry == OverlapLen

SpecGeometry == InitGeometry /\ [][NextGeometry]_vars

----------------------------------------------------------------------------
(* Geometry claims *)

\* the positions of the closed interval with bounds x and y, in either order
PositionsOf(x, y) == Min(x, y)..Max(x, y)

\* C20: overlap_len puts each pair of bounds in ascending order and returns
\* max(0, min(aEnd, bEnd) - max(aStart, bStart) + 1), the number of positions
\* the two closed intervals share ([10,20] and [20,30] share 1); it is
\* symmetric in the two intervals.
C20_OverlapLength ==
    pc = "done" =>
        LET aS == Min(intervals[1], intervals[2])
            aE == Max(intervals[1], intervals[2])
            bS == Min(intervals[3], intervals[4])
            bE == Max(intervals[3], intervals[4])
        IN /\ overlap = Max(0, Min(aE, bE) - Max(aS, bS) + 1)
           /\ overlap = Cardinality(PositionsOf(intervals[1], intervals[2])
                                    \cap PositionsOf(intervals[3], intervals[4]))
           /\ overlap = overlap_len(intervals[3], intervals[4], intervals[1], intervals[2])
           /\ intervals = <<10, 20, 20, 30>> => overlap = 1

\* the second interval is given with its bounds in descending order and
\* shares more than one position with the first
C20_Witness ==
    /\ pc = "done"
    /\ intervals[4] < intervals[3]
    /\ intervals[1] < intervals[2]
    /\ overlap > 1


----------------------------------------------------------------------------
(* assign_and_deduplicate_display_labels *)

ValidationError == "ValidationError"

\* res.display_label or res.input_file_label
LabelOf(res) ==
    IF res.display_label \in { None, "" } THEN res.input_file_label ELSE res.display_label

\* the initial assignment of display_label to assembly_results[i]
InitialLabel(res, names, i) ==
    IF names # NoValue THEN names[1][i] ELSE LabelOf(res)

\* the loop suffixing duplicates of (display_label, mining_tool), from
\* position p of all_results on; counts is the defaultdict(int)
RECURSIVE SuffixDuplicates(_, _, _, _)
SuffixDuplicates(all_results, p, counts, renaming_log) ==
    IF p > Len(all_results)
    THEN [all_results |-> all_results, renaming_log |-> renaming_log]
    ELSE LET res == all_results[p]
             base == LabelOf(res)
             key == <<base, res.mining_tool>>
             idx == Get(counts, key, 0)
             new_label == IF idx = 0 THEN base ELSE base \o "_" \o ToString(idx)
             counts_after == (key :> (idx + 1)) @@ counts
         IN IF new_label # base
            THEN SuffixDuplicates(
                     [all_results EXCEPT ![p].display_label = new_label], p + 1,
                     counts_after,
                     Append(renaming_log, [path |-> res.input_file, old_label |-> base,
                                           new_label |-> new_label]))
            ELSE SuffixDuplicates(all_results, p + 1, counts_after, renaming_log)

\* assign_and_deduplicate_display_labels on the parsed names; the value holds
\* the results with their new display labels and the renaming log
assign_and_deduplicate_display_labels(assembly_results, reference_result, names, ref_name) ==
    IF names # NoValue /\ Len(names[1]) # Len(assembly_results)
    THEN [error |-> ValidationError, value |-> <<>>]
    ELSE LET assigned ==
                 [i \in 1..Len(assembly_results) |->
                     [assembly_results[i] EXCEPT
                         !.display_label = InitialLabel(assembly_results[i], names, i)]]
             reference ==
                 [i \in 1..Len(reference_result) |->
                     [reference_result[i] EXCEPT
                         !.display_label = IF ref_name # NoValue THEN ref_name[1]
                                           ELSE LabelOf(reference_result[i])]]
             suffixed == SuffixDuplicates(assigned \o reference, 1, <<>>, <<>>)
         IN [error |-> None,
             value |-> [assembly_results |->
                            SubSeq(suffixed.all_results, 1, Len(assembly_results)),
                        reference_result |->
                            SubSeq(suffixed.all_results, Len(assembly_results) + 1,
                                   Len(suffixed.all_results)),
                        renaming_log |-> suffixed.renaming_log]]

----------------------------------------------------------------------------
(* compute_uniqueness *)

\* as ThresholdInRange, but 0 and 1 are out of range
ThresholdInRange_Exclusive(threshold) == 0 < threshold[1] /\ threshold[1] < threshold[2]

\* 0.0 <= overlap_threshold <= 1.0 for the threshold <<numerator, denominator>>
ThresholdInRange(threshold) == 0 <= threshold[1] /\ threshold[1] <= threshold[2]

\* cov > 0.0 and cov >= overlap_threshold, for cov = coverage_of_a_by_b(a, b)
Covered(a, b, threshold) ==
    LET cov == coverage_of_a_by_b(a, b) IN
    /\ cov[1] > 0
    /\ cov[1] * threshold[2] >= threshold[1] * cov[2]

\* as _is_unique_against_candidates, without the test cov > 0.0
_is_unique_against_candidates_ZeroCounts(bgc_a, candidates, threshold) ==
    IF ~ThresholdInRange(threshold) THEN [error |-> ValueError, value |-> FALSE]
    ELSE [error |-> None,
          value |-> ~\E k \in 1..Len(candidates) :
                        LET cov == coverage_of_a_by_b(bgc_a, candidates[k]) IN
                        cov[1] * threshold[2] >= threshold[1] * cov[2]]

_is_unique_against_candidates(bgc_a, candidates, threshold) ==
    IF ~ThresholdInRange(threshold) THEN [error |-> ValueError, value |-> FALSE]
    ELSE [error |-> None,
          value |-> ~\E k \in 1..Len(candidates) : Covered(bgc_a, candidates[k], threshold)]

\* the entries (i, res.mining_tool, j, bgc) added to by_seq, in the order of
\* the two loops, from region j of result i on
RECURSIVE IndexEntries(_, _, _)
IndexEntries(rs, i, j) ==
    IF i > Len(rs) THEN <<>>
    ELSE IF j > Len(rs[i].bgcs) THEN IndexEntries(rs, i + 1, 1)
    ELSE <<[run_idx |-> i, tool |-> rs[i].mining_tool, bgc |-> rs[i].bgcs[j]]>>
             \o IndexEntries(rs, i, j + 1)

\* by_seq.get(seq, [])
by_seq(rs, seq) ==
    SelectSeq(IndexEntries(rs, 1, 1), LAMBDA e : e.bgc.sequence_id = seq)

\* as by_seq_by_run, but the regions of the run on every sequence
by_seq_by_run_AnySequence(rs, seq, run_idx) ==
    LET entries == SelectSeq(IndexEntries(rs, 1, 1), LAMBDA e : e.run_idx = run_idx)
    IN [k \in 1..Len(entries) |-> entries[k].bgc]

\* by_seq_by_run.get(seq, {}).get(run_idx, [])
by_seq_by_run(rs, seq, run_idx) ==
    LET entries == SelectSeq(by_seq(rs, seq), LAMBDA e : e.run_idx = run_idx)
    IN [k \in 1..Len(entries) |-> entries[k].bgc]

run_labels(rs) ==
    [i \in 1..Len(rs) |-> LabelOf(rs[i]) \o " [" \o rs[i].mining_tool \o "]"]


\* as global_candidates, but the regions of every other result
global_candidates_OtherRuns(rs, i, a) ==
    LET entries == SelectSeq(by_seq(rs, a.sequence_id), LAMBDA e : e.run_idx # i)
    IN [k \in 1..Len(entries) |-> entries[k].bgc]

\* global_candidates for region a of result i: same sequence, different tool
global_candidates(rs, i, a) ==
    LET entries == SelectSeq(by_seq(rs, a.sequence_id),
                             LAMBDA e : e.tool # rs[i].mining_tool)
    IN [k \in 1..Len(entries) |-> entries[k].bgc]

\* the two "continue" tests of the pairwise loops: the same result, or the
\* same input file
SkipsPair(rs, i, j) == j = i \/ rs[j].input_file = rs[i].input_file

\* the initialisation of pairwise_by_tool, from result i on
RECURSIVE PairwiseInit(_, _, _)
PairwiseInit(rs, i, pairwise_by_tool) ==
    IF i > Len(rs) THEN pairwise_by_tool
    ELSE LET B_labels == { run_labels(rs)[j] : j \in { k \in 1..Len(rs) : ~SkipsPair(rs, i, k) } }
             entries == [B_label \in B_labels |-> [unique |-> 0, non_unique |-> 0]]
         IN PairwiseInit(rs, i + 1, (run_labels(rs)[i] :> entries) @@ pairwise_by_tool)

\* the directional pairwise loop for region a of result i, from result j on
RECURSIVE PairwisePass(_, _, _, _, _, _)
PairwisePass(rs, threshold, i, a, j, pairwise_by_tool) ==
    IF j > Len(rs) THEN pairwise_by_tool
    ELSE LET A_label == run_labels(rs)[i]
             B_label == run_labels(rs)[j]
         IN IF SkipsPair(rs, i, j) \/ B_label \notin DOMAIN Get(pairwise_by_tool, A_label, <<>>)
            THEN PairwisePass(rs, threshold, i, a, j + 1, pairwise_by_tool)
            ELSE LET candidates == by_seq_by_run(rs, a.sequence_id, j)
                     overlapped_by_B ==
                         \E k \in 1..Len(candidates) : Covered(a, candidates[k], threshold)
                 IN PairwisePass(rs, threshold, i, a, j + 1,
                        IF overlapped_by_B
                        THEN [pairwise_by_tool EXCEPT ![A_label][B_label].non_unique = @ + 1]
                        ELSE [pairwise_by_tool EXCEPT ![A_label][B_label].unique = @ + 1])

\* the loop over res.bgcs of result i, from region n on; acc holds
\* uniques_for_res, non_uniques_for_res, totals_by_tool and pairwise_by_tool
RECURSIVE BgcPass(_, _, _, _, _)
BgcPass(rs, threshold, i, n, acc) ==
    IF n > Len(rs[i].bgcs) THEN [error |-> None, value |-> acc]
    ELSE LET a == rs[i].bgcs[n]
             A_label == run_labels(rs)[i]
             is_unique_global ==
                 _is_unique_against_candidates(a, global_candidates(rs, i, a), threshold)
         IN IF is_unique_global.error # None
            THEN [error |-> is_unique_global.error, value |-> <<>>]
            ELSE BgcPass(rs, threshold, i, n + 1,
                   [uniques_for_res |->
                        IF is_unique_global.value THEN Append(acc.uniques_for_res, a)
                        ELSE acc.uniques_for_res,
                    non_uniques_for_res |->
                        IF is_unique_global.value THEN acc.non_uniques_for_res
                        ELSE Append(acc.non_uniques_for_res, a),
                    totals_by_tool |->
                        IF is_unique_global.value
                        THEN [acc.totals_by_tool EXCEPT ![A_label].unique = @ + 1,
                                                        ![A_label].total = @ + 1]
                        ELSE [acc.totals_by_tool EXCEPT ![A_label].non_unique = @ + 1,
                                                        ![A_label].total = @ + 1],
                    pairwise_by_tool |->
                        PairwisePass(rs, threshold, i, a, 1, acc.pairwise_by_tool)])

\* the main pass over the results, from result i on
RECURSIVE MainPass(_, _, _, _)
MainPass(rs, threshold, i, acc) ==
    IF i > Len(rs) THEN [error |-> None, value |-> acc]
    ELSE LET pass == BgcPass(rs, threshold, i, 1,
                             [uniques_for_res |-> <<>>, non_uniques_for_res |-> <<>>,
                              totals_by_tool |-> acc.totals_by_tool,
                              pairwise_by_tool |-> acc.pairwise_by_tool])
         IN IF pass.error # None THEN [error |-> pass.error, value |-> <<>>]
            ELSE MainPass(rs, threshold, i + 1,
                   [results_uniques |->
                        Append(acc.results_uniques,
                               [result |-> rs[i],
                                uniques |-> pass.value.uniques_for_res,
                                non_uniques |-> pass.value.non_uniques_for_res]),
                    totals_by_tool |-> pass.value.totals_by_tool,
                    pairwise_by_tool |-> pass.value.pairwise_by_tool])

\* compute_uniqueness: the value holds results_uniques and the two entries
\* of meta
compute_uniqueness(rs, threshold) ==
    IF rs = <<>>
    THEN [error |-> None,
          value |-> [results_uniques |-> <<>>, totals_by_tool |-> <<>>,
                     pairwise_by_tool |-> <<>>]]
    ELSE MainPass(rs, threshold, 1,
           [results_uniques |-> <<>>,
            totals_by_tool |->
                [run_label \in { run_labels(rs)[i] : i \in 1..Len(rs) } |->
                    [unique |-> 0, non_unique |-> 0, total |-> 0]],
            pairwise_by_tool |-> PairwiseInit(rs, 1, <<>>)])


----------------------------------------------------------------------------
(* compute_uniqueness specification *)

\* most results in the lists drawn from UniqRuns
MaxRuns == 2

\* input files with the label derived from each
UniqFiles == { <<"a/x.json", "x">>, <<"b/x.json", "x">> }
CollidingFiles == UniqFiles \cup { <<"a/x_1.json", "x_1">> }
UniqTools == { "tool_1", "tool_2" }

UniqBgcLists ==
    { <<>>,
      <<Bgc("bgc_1", "seq_1", 1, 2)>>,
      <<Bgc("bgc_1", "seq_1", 1, 4)>>,
      <<Bgc("bgc_1", "seq_1", 3, 4), Bgc("bgc_2", "seq_2", 1, 2)>>,
      <<Bgc("bgc_1", "seq_1", 3, 2)>> }

UniqRuns ==
    { GenomeMiningResult(f[1], f[2], None, t, b) :
        f \in UniqFiles, t \in UniqTools, b \in UniqBgcLists }

\* overlap thresholds <<numerator, denominator>>: 0, 0.5, 0.9, 1, 1.5 and -0.1
UniqThresholds == { <<0, 1>>, <<1, 2>>, <<9, 10>>, <<1, 1>>, <<3, 2>>, <<-1, 10>> }

\* three results over files of which two give the label of a suffixed third
CollidingRuns ==
    { GenomeMiningResult(f[1], f[2], None, t, b) :
        f \in CollidingFiles, t \in UniqTools,
        b \in { <<Bgc("bgc_1", "seq_1", 1, 2)>>, <<Bgc("bgc_1", "seq_1", 1, 4)>> } }

\* two results of one tool, the region of the second covering 95% of the
\* region of the first, and a result of another tool
ScenarioF ==
    { << GenomeMiningResult("a/x.json", "x", None, "tool_1",
                            <<Bgc("bgc_1", "seq_1", 1, 20)>>),
         GenomeMiningResult("b/x.json", "x", None, "tool_1",
                            <<Bgc("bgc_1", "seq_1", 2, 30)>>),
         GenomeMiningResult("a/x_1.json", "x_1", None, "tool_2", c) >> :
        c \in { <<>>, <<Bgc("bgc_1", "seq_1", 1, 17)>>, <<Bgc("bgc_1", "seq_1", 1, 18)>>,
                <<Bgc("bgc_1", "seq_2", 1, 20)>> } }

InitUniq ==
    /\ InputIdle
    /\ pc = "start"
    /\ \/ /\ results \in ListsOf(UniqRuns, MaxRuns)
          /\ overlap_threshold \in UniqThresholds
       \/ /\ results \in { <<r1, r2, r3>> : r1 \in CollidingRuns, r2 \in CollidingRuns,
                                            r3 \in CollidingRuns }
          /\ overlap_threshold = <<1, 1>>
       \/ /\ results \in ScenarioF
          /\ overlap_threshold \in { <<9, 10>>, <<19, 20>>, <<1, 1>> }
    /\ uniqueness = NoResult
    /\ allowed_gap = 0
    /\ ClassifierIdle
    /\ MapperIdle
    /\ EngineIdle
    /\ CoverageIdle
    /\ GeometryIdle

\* PipelineHelper: the display labels are assigned before the report is built
AssignLabels ==
    /\ pc = "start"
    /\ results' = assign_and_deduplicate_display_labels(
                      results, NoValue, NoValue, NoValue).value.assembly_results
    /\ pc' = "labelled"
    /\ UNCHANGED inputVars
    /\ UNCHANGED <<allowed_gap, ref_bgc, status, alignment, query, mapped,
                   genome_mining_result, reference_genome_mining_result,
                   quast_result, ref_bgcs, quast_results, ref_bgc_coverage,
                   overlap_threshold, uniqueness, intervals, overlap>>

\* uniqueness = compute_uniqueness(results, overlap_threshold), or the
\* ValueError it raises
ComputeUniqueness ==
    /\ pc = "labelled"
    /\ uniqueness' = compute_uniqueness(results, overlap_threshold)
    /\ pc' = "done"
    /\ UNCHANGED inputVars
    /\ UNCHANGED <<allowed_gap, ref_bgc, status, alignment, query, mapped,
                   genome_mining_result, reference_genome_mining_result,
                   quast_result, ref_bgcs, results, quast_results, ref_bgc_coverage,
                   overlap_threshold, intervals, overlap>>

NextUniq == AssignLabels \/ ComputeUniqueness

SpecUniq == InitUniq /\ [][NextUniq]_vars


----------------------------------------------------------------------------
(* compute_uniqueness claims *)

\* compute_uniqueness has returned without raising
Returned == pc = "done" /\ uniqueness.error = None

\* length(a) = max(0, a.end - a.start + 1)
LengthOf(a) == Max(0, a.end - a.start + 1)

\* the number of positions regions a and b share
SharedPositions(a, b) ==
    Cardinality(PositionsOf(a.start, a.end) \cap PositionsOf(b.start, b.end))

\* coverageOfAByB(a, b) >= threshold, the coverage being 0 when length(a) = 0
CoverageAtLeast(a, b, threshold) ==
    IF LengthOf(a) = 0 THEN 0 >= threshold[1]
    ELSE SharedPositions(a, b) * threshold[2] >= threshold[1] * LengthOf(a)

\* coverageOfAByB(a, b) > 0
CoveragePositive(a, b) == LengthOf(a) > 0 /\ SharedPositions(a, b) > 0

InList(a, list) == \E m \in 1..Len(list) : list[m] = a

Runs == 1..Len(results)
RegionsOf(i) == 1..Len(results[i].bgcs)
UniquesOf(i) == uniqueness.value.results_uniques[i].uniques
NonUniquesOf(i) == uniqueness.value.results_uniques[i].non_uniques

\* some region of run k on the sequence of a covers a by at least the threshold
CoveredByRun(a, k) ==
    \E m \in RegionsOf(k) :
        /\ results[k].bgcs[m].sequence_id = a.sequence_id
        /\ CoverageAtLeast(a, results[k].bgcs[m], overlap_threshold)

\* as CoveredByRun, the coverage being positive too
OverlappedByRun(a, k) ==
    \E m \in RegionsOf(k) :
        /\ results[k].bgcs[m].sequence_id = a.sequence_id
        /\ CoveragePositive(a, results[k].bgcs[m])
        /\ CoverageAtLeast(a, results[k].bgcs[m], overlap_threshold)

\* C14: compute_uniqueness raises ValueError for every overlap threshold
\* outside [0,1], whatever the list of runs (empty, runs without regions, runs
\* with regions), and accepts every threshold inside [0,1].
C14_RejectsThresholdOutsideRange ==
    pc = "done" =>
        (uniqueness.error = ValueError
            <=> ~(0 <= overlap_threshold[1] /\ overlap_threshold[1] <= overlap_threshold[2]))

LabelIsOwn(i) == \A k \in Runs \ {i} : run_labels(results)[k] # run_labels(results)[i]

\* region b covers 95% of region a
Covers95(a, b) ==
    /\ b.sequence_id = a.sequence_id
    /\ LengthOf(a) > 0
    /\ SharedPositions(a, b) * 100 = 95 * LengthOf(a)

HasEntry(i, j) ==
    /\ run_labels(results)[i] \in DOMAIN uniqueness.value.pairwise_by_tool
    /\ run_labels(results)[j] \in DOMAIN uniqueness.value.pairwise_by_tool[run_labels(results)[i]]

\* C17: for every ordered pair of distinct runs (A,B) of different source
\* files, pairwise[A][B].non_unique is the number of regions of A that some
\* region of B on the same sequence covers by at least the threshold, and
\* pairwise[A][B].unique the number of the other regions of A.
C17_PairwiseCounts ==
    Returned =>
        \A i \in Runs : \A j \in Runs \ {i} :
            results[j].input_file # results[i].input_file =>
                LET overlapped == { n \in RegionsOf(i) : CoveredByRun(results[i].bgcs[n], j) }
                    entry == uniqueness.value.pairwise_by_tool[run_labels(results)[i]][run_labels(results)[j]]
                IN /\ HasEntry(i, j)
                   /\ entry.non_unique = Cardinality(overlapped)
                   /\ entry.unique = Len(results[i].bgcs) - Cardinality(overlapped)

\* C18: pairwise has no entry [A][B] when B is A or shares A's source file, and
\* an entry for every other ordered pair of runs; a region that a region of a
\* run of another tool and another source covers is non-unique also when that
\* run shares its source file with a third run.
C18_SelfComparisonGuard ==
    Returned =>
        /\ \A i \in Runs : \A j \in Runs :
               HasEntry(i, j) <=> (j # i /\ results[j].input_file # results[i].input_file)
        /\ \A i \in Runs : \A k \in Runs \ {i} : \A n \in RegionsOf(i) :
               ( /\ results[k].mining_tool # results[i].mining_tool
                 /\ results[k].input_file # results[i].input_file
                 /\ \E k2 \in Runs \ {k} : results[k2].input_file = results[k].input_file
                 /\ OverlappedByRun(results[i].bgcs[n], k) )
               => InList(results[i].bgcs[n], NonUniquesOf(i))

\* C19: the totals have exactly one entry per input run, whose total is the
\* number of regions of the run and whose unique and non_unique are the lengths
\* of the run's unique and non-unique lists; the per-run list follows the
\* input order.
C19_TotalsPerRun ==
    Returned =>
        /\ Cardinality(DOMAIN uniqueness.value.totals_by_tool) = Len(results)
        /\ Len(uniqueness.value.results_uniques) = Len(results)
        /\ \A i \in Runs :
               LET entry == uniqueness.value.totals_by_tool[run_labels(results)[i]]
               IN /\ uniqueness.value.results_uniques[i].result = results[i]
                  /\ entry.total = Len(results[i].bgcs)
                  /\ entry.unique = Len(UniquesOf(i))
                  /\ entry.non_unique = Len(NonUniquesOf(i))
                  /\ entry.unique + entry.non_unique = entry.total

\* no two results of rs share the pair (display_label, mining_tool)
DistinctLabelPairs(rs) ==
    \A i, j \in 1..Len(rs) :
        (i # j) => <<rs[i].display_label, rs[i].mining_tool>>
                       # <<rs[j].display_label, rs[j].mining_tool>>

\* the results after keep the input_file_label they had before
FileLabelsKept(before, after) ==
    /\ Len(after) = Len(before)
    /\ \A i \in 1..Len(before) : after[i].input_file_label = before[i].input_file_label

\* C27: after assign_and_deduplicate_display_labels no two results share the
\* same (display_label, mining_tool) pair, whatever the initial labels and
\* tools are, and no result's input_file_label is modified.
C27_LabelPairsAreDistinct ==
    [][pc' = "labelled" =>
          /\ DistinctLabelPairs(results')
          /\ FileLabelsKept(results, results')]_vars

\* no two runs share a source file or a run label
DistinctFilesAndLabels ==
    \A i, j \in Runs :
        (i # j) => /\ results[i].input_file # results[j].input_file
                   /\ run_labels(results)[i] # run_labels(results)[j]

\* region n of run i is counted non-unique in pairwise[A][B], B the run j:
\* the entry compute_uniqueness returns when n is the only region of run i
CountedNonUnique(i, n, j) ==
    LET alone == [results EXCEPT ![i].bgcs = <<results[i].bgcs[n]>>]
        u == compute_uniqueness(alone, overlap_threshold)
        A_label == run_labels(results)[i]
        B_label == run_labels(results)[j]
    IN /\ u.error = None
       /\ A_label \in DOMAIN u.value.pairwise_by_tool
       /\ B_label \in DOMAIN u.value.pairwise_by_tool[A_label]
       /\ u.value.pairwise_by_tool[A_label][B_label].non_unique = 1

\* global and pairwise uniqueness of the regions of run i agree, the pairwise
\* entries read being those against the runs in others
AgreesWithPairwise(i, others) ==
    /\ \A n \in RegionsOf(i) :
           InList(results[i].bgcs[n], NonUniquesOf(i))
               <=> \E j \in others : CountedNonUnique(i, n, j)
    /\ uniqueness.value.totals_by_tool[run_labels(results)[i]].unique
           = Cardinality({ n \in RegionsOf(i) :
                             \A j \in others : ~CountedNonUnique(i, n, j) })

----------------------------------------------------------------------------
(* coverage_of_a_by_b specification *)

InitCoverageOfAByB ==
    /\ pc = "start"
    /\ \/ intervals \in (0..MaxGeo) \X (0..MaxGeo) \X (0..MaxGeo) \X (0..MaxGeo)
       \/ intervals \in { <<1, 20, 2, 30>>, <<10, 20, 20, 30>> }
    /\ coverage = <<0, 1>>
    /\ overlap = 0
    /\ results = <<>>
    /\ allowed_gap = 0
    /\ requested_mode = "auto"
    /\ running_mode = NoResult
    /\ reference_run = NoValue
    /\ names_arg = NoValue
    /\ label_renaming_log = NoResult
    /\ ClassifierIdle
    /\ MapperIdle
    /\ EngineIdle
    /\ CoverageIdle
    /\ UniquenessIdle

\* coverage = coverage_of_a_by_b(a, b) for the regions a and b of intervals
CoverageOfAByB ==
    /\ pc = "start"
    /\ coverage' = coverage_of_a_by_b(Bgc("a", "seq", intervals[1], intervals[2]),
                                      Bgc("b", "seq", intervals[3], intervals[4]))
    /\ pc' = "done"
    /\ UNCHANGED <<allowed_gap, ref_bgc, status, alignment, query, mapped,
                   genome_mining_result, reference_genome_mining_result,
                   quast_result, ref_bgcs, results, quast_results, ref_bgc_coverage,
                   overlap_threshold, uniqueness, intervals, overlap,
                   requested_mode, running_mode, reference_run, names_arg,
                   label_renaming_log>>

NextCoverageOfAByB == CoverageOfAByB

SpecCoverageOfAByB == InitCoverageOfAByB /\ [][NextCoverageOfAByB]_vars

\* C21: coverageOfAByB(a,b) is overlapLength(a,b) / length(a) with
\* length(a) = max(0, a.end - a.start + 1); it is 0 when length(a) = 0, lies in
\* [0,1] for every non-degenerate a and every b, and is 1 when b contains a.
C21_CoverageIsFractionOfA ==
    pc = "done" =>
        LET length_a == Max(0, intervals[2] - intervals[1] + 1)
            shared == Cardinality(PositionsOf(intervals[1], intervals[2])
                                  \cap PositionsOf(intervals[3], intervals[4]))
        IN /\ coverage[2] > 0
           /\ length_a = 0 => coverage[1] = 0
           /\ length_a > 0 =>
                  /\ coverage[1] * length_a = shared * coverage[2]
                  /\ 0 <= coverage[1] /\ coverage[1] <= coverage[2]
                  /\ (intervals[3] <= intervals[1] /\ intervals[2] <= intervals[4])
                         => coverage[1] = coverage[2]

\* a region of more than one position that b, given with descending bounds,
\* covers in part
C21_Witness ==
    /\ pc = "done"
    /\ intervals[1] < intervals[2]
    /\ intervals[4] < intervals[3]
    /\ 0 < coverage[1] /\ coverage[1] < coverage[2]


----------------------------------------------------------------------------
(* Degenerate geometry: both engines on degenerate inputs *)

\* intervals of the engine grid and the zero-length intervals (end = start - 1)
DegIntervals == EngIntervals \cup { <<1, 0>>, <<2, 1>> }

\* single-base alignments and alignments of the whole assembly segment
DegAlignments ==
    { AlignmentInfo("asm_id_1", "ref_id", 0, 2, 1, 1),
      AlignmentInfo("asm_id_1", "ref_id", 1, 1, 1, 1),
      AlignmentInfo("asm_id_1", "ref_id", 0, 2, 0, 2),
      AlignmentInfo("asm_id_1", "ref_id", 0, 2, 2, 0) }

DegBgcs(bgc_id, seq_ids) ==
    { Bgc(bgc_id, sq, q[1], q[2]) : sq \in seq_ids, q \in DegIntervals }

DegRuns ==
    { GenomeMiningResult(f[1], f[2], None, t, b) :
        f \in UniqFiles, t \in UniqTools,
        b \in { <<>>, <<Bgc("bgc_1", "seq_1", 1, 0)>>, <<Bgc("bgc_1", "seq_1", 1, 1)>>,
                <<Bgc("bgc_1", "seq_1", 0, 2)>> } }

InitDegenerate ==
    /\ InputIdle
    /\ pc = "start"
    /\ \/ /\ \E alns \in ListsOf(DegAlignments, 1) :
                quast_result = [k \in {"ref_id"} |-> alns]
          /\ genome_mining_result \in ListsOf(DegBgcs("asm_bgc_1", AsmSeqIds), 1)
          /\ \E b \in DegBgcs("ref_bgc_1", RefSeqIds) : reference_genome_mining_result = <<b>>
          /\ results = <<>>
          /\ overlap_threshold = <<0, 1>>
       \/ /\ quast_result = <<>>
          /\ genome_mining_result = <<>>
          /\ reference_genome_mining_result = <<>>
          /\ results \in ListsOf(DegRuns, MaxRuns)
          /\ overlap_threshold \in { <<0, 1>>, <<1, 2>>, <<1, 1>> }
    /\ ref_bgcs = <<>>
    /\ uniqueness = NoResult
    /\ allowed_gap = 0
    /\ ClassifierIdle
    /\ MapperIdle
    /\ CoverageIdle
    /\ GeometryIdle

NextDegenerate == ComputeReferenceCoverage \/ AssignLabels \/ ComputeUniqueness

SpecDegenerate == InitDegenerate /\ [][NextDegenerate]_vars

\* compute_uniqueness has run (and compute_reference_coverage has not)
UniquenessRan == uniqueness.error # None \/ DOMAIN uniqueness.value # {}

\* the assembly region lies outside the assembly extent of the alignment
OutsideAlignment(bgc, a) ==
    \/ bgc.sequence_id # a.assembly_seq_id
    \/ bgc.start > Max(a.assembly_start, a.assembly_end)
    \/ bgc.end < Min(a.assembly_start, a.assembly_end)

\* C22: degenerate geometry is never an error.  compute_uniqueness with a
\* threshold in [0,1] does not raise, puts every region in one of the two lists
\* of its run and a zero-length region in the unique list;
\* compute_reference_coverage gives every reference region one of the four
\* statuses, and MISSED to a reference region on a sequence without alignments,
\* to one without intersections and when every assembly region lies outside
\* every alignment.
C22_DegenerateGeometryIsNoError ==
    pc = "done" =>
        IF UniquenessRan
        THEN /\ uniqueness.error = None
             /\ Len(uniqueness.value.results_uniques) = Len(results)
             /\ \A i \in Runs :
                    /\ Len(UniquesOf(i)) + Len(NonUniquesOf(i)) = Len(results[i].bgcs)
                    /\ \A n \in RegionsOf(i) :
                           LengthOf(results[i].bgcs[n]) = 0
                               => InList(results[i].bgcs[n], UniquesOf(i))
        ELSE /\ Len(ref_bgcs) = Len(reference_genome_mining_result)
             /\ \A k \in 1..Len(ref_bgcs) :
                    LET alns == Get(quast_result, ref_bgcs[k].sequence_id, <<>>) IN
                    /\ ref_bgcs[k].status \in
                           { MISSED, COVERED, COVERED_BY_FRAGMENTS, PARTIALLY_COVERED }
                    /\ ref_bgcs[k].status = MISSED
                           <=> ref_bgcs[k].intersecting_assembly_bgcs = <<>>
                    /\ alns = <<>> => ref_bgcs[k].status = MISSED
                    /\ (\A n \in 1..Len(genome_mining_result) : \A m \in 1..Len(alns) :
                            OutsideAlignment(genome_mining_result[n], alns[m]))
                           => ref_bgcs[k].status = MISSED

\* a zero-length region is unique although a region of another tool on the
\* same sequence spans its position
C22_Witness ==
    /\ pc = "done"
    /\ UniquenessRan
    /\ \E i \in Runs : \E k \in Runs :
           /\ results[k].mining_tool # results[i].mining_tool
           /\ Len(results[i].bgcs) = 1 /\ Len(results[k].bgcs) = 1
           /\ LengthOf(results[i].bgcs[1]) = 0
           /\ results[k].bgcs[1].start < results[i].bgcs[1].start
           /\ results[k].bgcs[1].end > results[i].bgcs[1].end
           /\ UniquesOf(i) = results[i].bgcs


----------------------------------------------------------------------------
(* The engines and their inputs *)

\* QUAST results for the two run labels: an alignment of the whole assembly
\* sequence for the first, none for the second
FrameQuasts ==
    { <<QuastResult("asm_label_1",
                    [k \in {"ref_id"} |-> <<AlignmentInfo("asm_id_1", "ref_id", 0, 2, 0, 2)>>]),
        QuastResult("asm_label_2", [k \in {"ref_id"} |-> <<>>])>>,
      <<QuastResult("asm_label_1",
                    [k \in {"ref_id"} |-> <<AlignmentInfo("asm_id_1", "ref_id", 1, 2, 2, 1)>>])>> }

InitFrame ==
    /\ InputIdle
    /\ pc = "start"
    /\ \/ /\ results \in ListsOf(CovRuns, MaxCovRuns)
          /\ quast_results \in FrameQuasts
          /\ reference_genome_mining_result \in
                { <<Bgc("ref_bgc_1", "ref_id", 0, 2)>>, <<Bgc("ref_bgc_1", "ref_id", 1, 2)>> }
          /\ genome_mining_result = <<>>
          /\ quast_result = <<>>
          /\ overlap_threshold = <<1, 2>>
       \/ /\ results \in ListsOf(UniqRuns, MaxRuns)
          /\ overlap_threshold \in { <<1, 2>>, <<3, 2>> }
          /\ quast_results = <<>>
          /\ reference_genome_mining_result = <<>>
          /\ genome_mining_result = <<>>
          /\ quast_result = <<>>
       \/ /\ \E alns \in ListsOf(DegAlignments, 1) :
                quast_result = [k \in {"ref_id"} |-> alns]
          /\ genome_mining_result \in ListsOf(DegBgcs("asm_bgc_1", AsmSeqIds), 1)
          /\ \E b \in DegBgcs("ref_bgc_1", RefSeqIds) : reference_genome_mining_result = <<b>>
          /\ results = <<>>
          /\ quast_results = <<>>
          /\ overlap_threshold = <<1, 2>>
    /\ ref_bgcs = <<>>
    /\ ref_bgc_coverage = NoResult
    /\ uniqueness = NoResult
    /\ allowed_gap = 0
    /\ ClassifierIdle
    /\ MapperIdle
    /\ GeometryIdle

NextFrame ==
    ComputeCoverage \/ ComputeReferenceCoverage \/ AssignLabels \/ ComputeUniqueness

SpecFrame == InitFrame /\ [][NextFrame]_vars

\* the list that the dict cov holds for input file f
CoverageOfFile(cov, f) ==
    cov[CHOOSE k \in 1..Len(cov) : cov[k][1] = f][2]

\* the last of the runs rs with the input file of run i
LastRunOfFile(rs, i) ==
    CHOOSE j \in 1..Len(rs) :
        /\ rs[j].input_file = rs[i].input_file
        /\ \A k \in 1..Len(rs) : rs[k].input_file = rs[i].input_file => k <= j

\* every list of the returned dict is the list of the run it was computed
\* for, as computed for that run alone
RunsAreIndependent(returned, rs, reference_bgcs, quasts) ==
    (returned.error = None /\ returned.value # <<>>) =>
        \A i \in 1..Len(rs) :
            LET alone == compute_coverage(<<rs[LastRunOfFile(rs, i)]>>, reference_bgcs, quasts)
            IN /\ alone.error = None
               /\ CoverageOfFile(returned.value, rs[i].input_file) = alone.value[1][2]

----------------------------------------------------------------------------
(* Engine output and the classifier *)

\* C24: the intersection list of every ReferenceBgc that
\* compute_reference_coverage returns is sorted ascending by start_in_ref;
\* sorting it again by start_in_ref gives the same list, and classifying the
\* ReferenceBgc with the re-sorted list gives the status attached to it.
C24_ResortingKeepsStatus ==
    pc = "done" =>
        \A i \in 1..Len(ref_bgcs) :
            LET ints == ref_bgcs[i].intersecting_assembly_bgcs
                resorted == SortedByStart(ints)
            IN /\ \A a \in 1..Len(ints) : \A b \in a..Len(ints) :
                      ints[a].start_in_ref <= ints[b].start_in_ref
               /\ resorted = ints
               /\ determine_ref_bgc_status(
                      [ref_bgcs[i] EXCEPT !.intersecting_assembly_bgcs = resorted])
                      = ref_bgcs[i].status

\* a ReferenceBgc with two intersections that were found in descending order
\* of start_in_ref
C24_Witness ==
    /\ pc = "done"
    /\ \E i \in 1..Len(ref_bgcs) :
           LET found == CollectIntersections(ref_bgcs[i], AlignmentsFor(ref_bgcs[i]),
                                             genome_mining_result)
           IN /\ Len(found) = 2
              /\ found[1].start_in_ref > found[2].start_in_ref
              /\ ref_bgcs[i].intersecting_assembly_bgcs = <<found[2], found[1]>>


\* C29: whenever compute_reference_coverage gives a reference region the
\* status COVERED_BY_FRAGMENTS (FragmentedRecovery), its intersection list
\* holds at least two intersections belonging to two different assembly
\* regions, none of which alone contains the reference region; a single
\* assembly region is never reported as a fragmented recovery.
C29_FragmentsAreDifferentAssemblyRegions ==
    pc = "done" =>
        \A i \in 1..Len(ref_bgcs) :
            ref_bgcs[i].status = COVERED_BY_FRAGMENTS =>
                LET ints == ref_bgcs[i].intersecting_assembly_bgcs IN
                /\ Len(ints) >= 2
                /\ \E a, b \in 1..Len(ints) : ints[a].assembly_bgc # ints[b].assembly_bgc
                /\ \A a \in 1..Len(ints) : ~Contains(ints[a], ref_bgcs[i])


----------------------------------------------------------------------------
(* determine_running_mode *)

COMPARE_TO_REFERENCE == "compare_to_reference"
COMPARE_TOOLS == "compare_tools"
COMPARE_SAMPLES == "compare_samples"
UNKNOWN == "unknown"

Returns(value) == [error |-> None, value |-> value]
Raises(error) == [error |-> error, value |-> None]

\* not all(tool == results[0].mining_tool for ...)
different_mining_tools(rs) ==
    \E i \in 1..Len(rs) : rs[i].mining_tool # rs[1].mining_tool

\* not all(label == results[0].input_file_label for ...)
different_file_labels(rs) ==
    \E i \in 1..Len(rs) : rs[i].input_file_label # rs[1].input_file_label

distinct_tools(rs) == { rs[i].mining_tool : i \in 1..Len(rs) }

\* as determine_running_mode, but a reference decides for COMPARE_TO_REFERENCE
\* before the mining tools are looked at
determine_running_mode_ReferenceFirst(md, reference, assemblies) ==
    IF reference # NoValue THEN Returns(COMPARE_TO_REFERENCE)
    ELSE IF md = "auto"
    THEN IF different_file_labels(assemblies) /\ different_mining_tools(assemblies)
         THEN Raises(ValidationError)
         ELSE IF Len(assemblies) = 1 \/ different_file_labels(assemblies)
         THEN Returns(COMPARE_SAMPLES)
         ELSE Returns(COMPARE_TOOLS)
    ELSE IF md = "compare-tools"
    THEN IF Len(assemblies) < 2 THEN Raises(ValidationError) ELSE Returns(COMPARE_TOOLS)
    ELSE IF md = "compare-samples"
    THEN IF Cardinality(distinct_tools(assemblies)) # 1 THEN Raises(ValidationError)
         ELSE Returns(COMPARE_SAMPLES)
    ELSE Raises(ValidationError)

\* determine_running_mode of input_utils; reference is the list of the zero
\* or one reference results
determine_running_mode(md, reference, assemblies) ==
    LET has_reference == reference # NoValue IN
    IF md = "auto"
    THEN IF has_reference
         THEN IF different_mining_tools(assemblies) THEN Raises(ValidationError)
              ELSE Returns(COMPARE_TO_REFERENCE)
         ELSE IF different_file_labels(assemblies) /\ different_mining_tools(assemblies)
         THEN Raises(ValidationError)
         ELSE IF Len(assemblies) = 1 \/ different_file_labels(assemblies)
         THEN Returns(COMPARE_SAMPLES)
         ELSE Returns(COMPARE_TOOLS)
    ELSE IF md = "compare-to-reference"
    THEN IF ~has_reference THEN Raises(ValidationError)
         ELSE IF Cardinality(distinct_tools(assemblies) \cup {reference[1].mining_tool}) # 1
         THEN Raises(ValidationError)
         ELSE Returns(COMPARE_TO_REFERENCE)
    ELSE IF md = "compare-tools"
    THEN IF has_reference THEN Raises(ValidationError)
         ELSE IF Len(assemblies) < 2 THEN Raises(ValidationError)
         ELSE Returns(COMPARE_TOOLS)
    ELSE IF md = "compare-samples"
    THEN IF has_reference THEN Raises(ValidationError)
         ELSE IF Cardinality(distinct_tools(assemblies)) # 1 THEN Raises(ValidationError)
         ELSE Returns(COMPARE_SAMPLES)
    ELSE Raises(ValidationError)

\* determine_running_mode of utils
utils_determine_running_mode(reference, rs) ==
    IF reference # NoValue THEN Returns(COMPARE_TO_REFERENCE)
    ELSE IF Len(rs) <= 1 \/ (different_file_labels(rs) /\ different_mining_tools(rs))
    THEN Returns(UNKNOWN)
    ELSE IF different_file_labels(rs) THEN Returns(COMPARE_SAMPLES)
    ELSE Returns(COMPARE_TOOLS)

\* most assembly results handed to determine_running_mode
MaxModeRuns == 3

ModeRuns ==
    { GenomeMiningResult(f[1], f[2], None, t, <<>>) :
        f \in { <<"sample1.json", "sample1">>, <<"sample2.json", "sample2">> },
        t \in { "tool1", "tool2" } }

ModeReferences ==
    { NoValue } \cup
    { <<GenomeMiningResult("ref.json", "ref", None, t, <<>>)>> : t \in { "tool1", "tool2" } }

RequestedModes == { "auto", "compare-to-reference", "compare-tools", "compare-samples", "other" }

InitMode ==
    /\ pc = "start"
    /\ requested_mode \in RequestedModes
    /\ reference_run \in ModeReferences
    /\ results \in ListsOf(ModeRuns, MaxModeRuns)
    /\ running_mode = NoResult
    /\ coverage = <<0, 1>>
    /\ names_arg = NoValue
    /\ label_renaming_log = NoResult
    /\ allowed_gap = 0
    /\ ClassifierIdle
    /\ MapperIdle
    /\ EngineIdle
    /\ CoverageIdle
    /\ UniquenessIdle
    /\ GeometryIdle

\* PipelineHelper: running_mode = input_utils.determine_running_mode(...)
DetermineRunningMode ==
    /\ pc = "start"
    /\ running_mode' = determine_running_mode(requested_mode, reference_run, results)
    /\ pc' = "done"
    /\ UNCHANGED <<allowed_gap, ref_bgc, status, alignment, query, mapped,
                   genome_mining_result, reference_genome_mining_result,
                   quast_result, ref_bgcs, results, quast_results, ref_bgc_coverage,
                   overlap_threshold, uniqueness, intervals, overlap, coverage,
                   requested_mode, reference_run, names_arg, label_renaming_log>>

\* running_mode = utils.determine_running_mode(reference, results)
UtilsDetermineRunningMode ==
    /\ pc = "start"
    /\ running_mode' = utils_determine_running_mode(reference_run, results)
    /\ pc' = "done_utils"
    /\ UNCHANGED <<allowed_gap, ref_bgc, status, alignment, query, mapped,
                   genome_mining_result, reference_genome_mining_result,
                   quast_result, ref_bgcs, results, quast_results, ref_bgc_coverage,
                   overlap_threshold, uniqueness, intervals, overlap, coverage,
                   requested_mode, reference_run, names_arg, label_renaming_log>>

NextMode == DetermineRunningMode \/ UtilsDetermineRunningMode

SpecMode == InitMode /\ [][NextMode]_vars

\* the call returned COMPARE_TO_REFERENCE
ReturnedCompareToReference ==
    running_mode.error = None /\ running_mode.value = COMPARE_TO_REFERENCE

ToolsOfAssemblies == { results[i].mining_tool : i \in 1..Len(results) }

====
